---- MODULE Spec2Model ----
(***************************************************************************)
(* A model of cloud-checksum: the sums-file (manifest) model and its       *)
(* merge, the check engine that groups sums files, the AWS ETag composite  *)
(* digest context with its part-size normalization, and the shared         *)
(* fan-out reader.  Each subsystem has its own specification; the          *)
(* variables of the other subsystems stay at their idle values.            *)
(***************************************************************************)
EXTENDS Naturals, Integers, Sequences, FiniteSets, TLC

VARIABLES
    mg,      \* merge harness: inputs a, b, c and the results of SumsFile::merge
    pc_mg,   \* merge harness: which merges have been applied
    nm,      \* normalization harness: the AWSETagCtx whose part sizes are updated
    pc_nm,   \* normalization harness: whether update_part_sizes has run
    et,      \* digest harness: a stream, and two AWSETagCtx fed with it
    ck,      \* check harness: the CheckTask and the position in merge_fn / run
    rd,      \* shared reader: the source, the subscribers' queues, the consumers
    rl,      \* relation harness: two sums files and what is_same / comparable say
    ps,      \* spec-string harness: a spec string, parsed, displayed and parsed again
    mn,      \* main: the parsed command line, what was printed and what was written
    it       \* iterate_part_sizes taken loop pass by loop pass

vars == <<mg, pc_mg, nm, pc_nm, et, ck, rd, rl, ps, mn, it>>

\* What the actions of one subsystem leave alone: the other subsystems.
notMerge == <<nm, pc_nm, et, ck, rd, rl, ps, mn, it>>

notNorm == <<mg, pc_mg, et, ck, rd, rl, ps, mn, it>>

notEtag == <<mg, pc_mg, nm, pc_nm, ck, rd, rl, ps, mn, it>>

notCheck == <<mg, pc_mg, nm, pc_nm, et, rd, rl, ps, mn, it>>

notReader == <<mg, pc_mg, nm, pc_nm, et, ck, rl, ps, mn, it>>

notRelate == <<mg, pc_mg, nm, pc_nm, et, ck, rd, ps, mn, it>>

notParse == <<mg, pc_mg, nm, pc_nm, et, ck, rd, rl, mn, it>>

notMain == <<mg, pc_mg, nm, pc_nm, et, ck, rd, rl, ps, it>>

notIterate == <<mg, pc_mg, nm, pc_nm, et, ck, rd, rl, ps, mn>>

(***************************************************************************)
(* Option<T>: None is the empty set, Some(x) the singleton.                *)
(***************************************************************************)
None == {}

Some(x) == {x}

\* Result<T>: Ok(v) or Err(e).
Ok(v) == [tag |-> "Ok", val |-> v]

Err(e) == [tag |-> "Err", err |-> e]

NotRun == [tag |-> "NotRun"]

IsOk(r) == r.tag = "Ok"

IsErr(r) == r.tag = "Err"

(***************************************************************************)
(* Bounds of the model.                                                    *)
(***************************************************************************)
\* Sizes of target objects are drawn from 1..MaxSize (and None).
MaxSize == 2

\* Declared part sizes are drawn from 1..MaxPartSize.
MaxPartSize == 3

\* A declared PartSizes list has 1..MaxParts elements (normalization harness).
MaxParts == 4

\* The file size given to update_part_sizes is drawn from 0..MaxTotal.
MaxTotal == 10

\* A declared PartSizes list has 1..MaxSchedule elements (digest harness).
MaxSchedule == 2

\* The fill loop of iterate_part_sizes is followed until the list holds
\* MaxFillLen sizes (more than any list needs whose last size is positive).
MaxFillLen == 16

\* A declared part number is drawn from 1..MaxPartNumber.
MaxPartNumber == 3

\* Streams have 0..MaxStreamLen bytes.
MaxStreamLen == 5

\* Chunks passed to update have 1..MaxChunkLen bytes.
MaxChunkLen == 3

(***************************************************************************)
(* The sums file (checksum/file.rs).                                       *)
(***************************************************************************)
OUTPUT_FILE_VERSION == "1"

\* The checksum kinds used as keys of a sums file, by their canonical string.
\* KeyOrder lists them in the order of Ctx's Ord.
KeyOrder == <<"md5", "sha1">>

Keys == {KeyOrder[i] : i \in 1..Len(KeyOrder)}

\* The encoded top-level checksum strings used by the model, in the
\* lexicographic order of String ("" is Checksum::default()).
StringOrder == <<"", "123", "abc">>

\* A part checksum with its part size.
PartChecksum(part_size, part_checksum) ==
    [part_size |-> part_size, part_checksum |-> part_checksum]

\* The output of a checksum: the top-level string and the optional parts.
Checksum(checksum, part_checksums) ==
    [checksum |-> checksum, part_checksums |-> part_checksums]

DefaultChecksum == Checksum("", None)

SumsFile(size, checksums) ==
    [version |-> OUTPUT_FILE_VERSION, size |-> size, checksums |-> checksums]

DefaultSumsFile == SumsFile(None, <<>>)

is_empty(checksums) == DOMAIN checksums = {}

\* merge_mut as a plausible slip would have it: stop at the first key of
\* other that self already holds, instead of overwriting it.
merge_mut_stop_on_collision(self, other) ==
    LET hit == {i \in 1..Len(KeyOrder) :
                    /\ KeyOrder[i] \in DOMAIN other.checksums
                    /\ KeyOrder[i] \in DOMAIN self.checksums}
        stop == IF hit = {} THEN Len(KeyOrder) + 1
                ELSE CHOOSE i \in hit : \A j \in hit : i <= j
        taken == {KeyOrder[i] : i \in {j \in 1..(stop - 1) :
                                         KeyOrder[j] \in DOMAIN other.checksums}}
    IN  [self EXCEPT !.checksums =
            [k \in DOMAIN self.checksums \cup taken |->
                IF k \in taken THEN other.checksums[k] ELSE self.checksums[k]]]

\* merge_mut as a plausible slip would have it: keep self's value on collision.
merge_mut_keep_self(self, other) ==
    [self EXCEPT !.checksums =
        [k \in DOMAIN self.checksums \cup DOMAIN other.checksums |->
            IF k \in DOMAIN self.checksums
            THEN self.checksums[k] ELSE other.checksums[k]]]

\* SumsFile::merge_mut: insert every (key, checksum) of other, overwriting.
\* Only the checksums change: version and size stay those of self.
merge_mut(self, other) ==
    [self EXCEPT !.checksums =
        [k \in DOMAIN self.checksums \cup DOMAIN other.checksums |->
            IF k \in DOMAIN other.checksums
            THEN other.checksums[k] ELSE self.checksums[k]]]

\* The size check of merge as a plausible slip would have it: the emptiness
\* of other is not looked at.
merge_size_mismatch_ignoring_other(self, other) ==
    /\ self.size # other.size
    /\ ~is_empty(self.checksums)

\* The size check of merge as a plausible slip would have it: an absent size
\* goes with every size.
merge_size_mismatch_of_present_sizes(self, other) ==
    /\ self.size # None
    /\ other.size # None
    /\ self.size # other.size
    /\ ~is_empty(self.checksums)
    /\ ~is_empty(other.checksums)

\* The condition under which SumsFile::merge refuses.
merge_size_mismatch(self, other) ==
    /\ self.size # other.size
    /\ ~is_empty(self.checksums)
    /\ ~is_empty(other.checksums)

\* SumsFile::merge.
merge(self, other) ==
    IF merge_size_mismatch(self, other)
    THEN Err("the size of output files do not match")
    ELSE Ok(merge_mut(self, other))

\* is_same as a plausible slip would have it: every key held by both has to
\* carry the same top-level checksum string.
is_same_on_every_shared_key(self, other) ==
    /\ self.size = other.size
    /\ \E key \in DOMAIN self.checksums : key \in DOMAIN other.checksums
    /\ \A key \in DOMAIN self.checksums :
          key \in DOMAIN other.checksums =>
              self.checksums[key].checksum = other.checksums[key].checksum

\* comparable as a plausible slip would have it: the sizes are not looked at.
comparable_whatever_the_size(self, other) ==
    \E key \in DOMAIN self.checksums : key \in DOMAIN other.checksums

\* is_same as a plausible slip would have it: the sizes are not looked at.
is_same_whatever_the_size(self, other) ==
    \E key \in DOMAIN self.checksums :
        /\ key \in DOMAIN other.checksums
        /\ self.checksums[key].checksum = other.checksums[key].checksum

\* SumsFile::is_same: equal sizes, and some key of self that other holds too
\* carries the same top-level checksum string.  Part checksums are not compared.
is_same(self, other) ==
    /\ self.size = other.size
    /\ \E key \in DOMAIN self.checksums :
          /\ key \in DOMAIN other.checksums
          /\ self.checksums[key].checksum = other.checksums[key].checksum

\* comparable as a plausible slip would have it: the two have to hold the
\* same keys.
comparable_on_the_same_keys(self, other) ==
    /\ self.size = other.size
    /\ DOMAIN self.checksums = DOMAIN other.checksums
    /\ ~is_empty(self.checksums)

\* comparable as a plausible slip would have it: the keys are not looked at.
comparable_on_size_alone(self, other) == self.size = other.size

\* SumsFile::comparable: equal sizes, and some key of self is a key of other.
comparable(self, other) ==
    /\ self.size = other.size
    /\ \E key \in DOMAIN self.checksums : key \in DOMAIN other.checksums

(***************************************************************************)
(* The derived orderings (#[derive(Ord)]) of the sums file and its parts,  *)
(* as a three-way comparison: -1 is Less, 0 Equal, 1 Greater.              *)
(***************************************************************************)
cmp_u64(a, b) == IF a < b THEN -1 ELSE IF a > b THEN 1 ELSE 0

Rank(order, x) == CHOOSE i \in 1..Len(order) : order[i] = x

\* String::cmp and Ctx::cmp on the strings and keys of the model.
cmp_string(a, b) == cmp_u64(Rank(StringOrder, a), Rank(StringOrder, b))

cmp_ctx(a, b) == cmp_u64(Rank(KeyOrder, a), Rank(KeyOrder, b))

\* Option<T>::cmp: None is less than Some, two Some compare by their content.
\* OptionOrder gives the part of the comparison that the content does not
\* decide: 2 stands for two Some.
OptionOrder(a, b) ==
    IF a = None THEN (IF b = None THEN 0 ELSE -1)
    ELSE IF b = None THEN 1
    ELSE 2

Unwrap(a) == CHOOSE x \in a : TRUE

cmp_option_u64(a, b) ==
    IF OptionOrder(a, b) # 2 THEN OptionOrder(a, b)
    ELSE cmp_u64(Unwrap(a), Unwrap(b))

cmp_option_string(a, b) ==
    IF OptionOrder(a, b) # 2 THEN OptionOrder(a, b)
    ELSE cmp_string(Unwrap(a), Unwrap(b))

\* PartChecksum: part_size, then part_checksum.
cmp_part_checksum(a, b) ==
    LET by_size == cmp_option_u64(a.part_size, b.part_size)
    IN  IF by_size # 0 THEN by_size
        ELSE cmp_option_string(a.part_checksum, b.part_checksum)

\* PartChecksums (a Vec): lexicographic, a proper prefix is less.
RECURSIVE cmp_part_checksums_from(_, _, _)
cmp_part_checksums_from(a, b, i) ==
    IF i > Len(a) /\ i > Len(b) THEN 0
    ELSE IF i > Len(a) THEN -1
    ELSE IF i > Len(b) THEN 1
    ELSE LET here == cmp_part_checksum(a[i], b[i])
         IN  IF here # 0 THEN here ELSE cmp_part_checksums_from(a, b, i + 1)

cmp_part_checksums(a, b) == cmp_part_checksums_from(a, b, 1)

cmp_option_part_checksums(a, b) ==
    IF OptionOrder(a, b) # 2 THEN OptionOrder(a, b)
    ELSE cmp_part_checksums(Unwrap(a), Unwrap(b))

\* Checksum: checksum, then part_checksums.
cmp_checksum(a, b) ==
    LET by_string == cmp_string(a.checksum, b.checksum)
    IN  IF by_string # 0 THEN by_string
        ELSE cmp_option_part_checksums(a.part_checksums, b.part_checksums)

\* The keys of a BTreeMap<Ctx, Checksum> in iteration order.
SortedKeys(checksums) ==
    SelectSeq(KeyOrder, LAMBDA key : key \in DOMAIN checksums)

\* BTreeMap::cmp: lexicographic over the (key, value) pairs in key order.
RECURSIVE cmp_checksums_from(_, _, _)
cmp_checksums_from(a, b, i) ==
    LET ka == SortedKeys(a)
        kb == SortedKeys(b)
    IN  IF i > Len(ka) /\ i > Len(kb) THEN 0
        ELSE IF i > Len(ka) THEN -1
        ELSE IF i > Len(kb) THEN 1
        ELSE LET by_key == cmp_ctx(ka[i], kb[i])
                 by_value == cmp_checksum(a[ka[i]], b[kb[i]])
             IN  IF by_key # 0 THEN by_key
                 ELSE IF by_value # 0 THEN by_value
                 ELSE cmp_checksums_from(a, b, i + 1)

cmp_checksums(a, b) == cmp_checksums_from(a, b, 1)

\* SumsFile: version, then size, then checksums.
cmp_sums_file(a, b) ==
    LET by_version ==
            IF a.version = b.version THEN 0
            ELSE cmp_string(a.version, b.version)
        by_size == cmp_option_u64(a.size, b.size)
    IN  IF by_version # 0 THEN by_version
        ELSE IF by_size # 0 THEN by_size
        ELSE cmp_checksums(a.checksums, b.checksums)

(***************************************************************************)
(* The universe of sums files the specifications draw their inputs from.   *)
(***************************************************************************)
Sizes == {None} \cup {Some(n) : n \in 1..MaxSize}

Parts == <<PartChecksum(Some(1), Some("123"))>>

\* Two different top-level values, and one that differs only in its parts.
ChecksumValues ==
    {Checksum("123", None), Checksum("abc", None), Checksum("123", Some(Parts))}

ChecksumMaps(values) ==
    UNION {[ks -> values] : ks \in SUBSET Keys}

SumsFiles(values) ==
    {SumsFile(s, m) : s \in Sizes, m \in ChecksumMaps(values)}


(***************************************************************************)
(* The AWS ETag context (checksum/aws_etag.rs).                            *)
(***************************************************************************)
\* PartMode: both variants as records of one shape.
PartNumber(n) == [kind |-> "PartNumber", n |-> n, sizes |-> <<>>]

PartSizes(sizes) == [kind |-> "PartSizes", n |-> 0, sizes |-> sizes]

\* u64::saturating_sub.
saturating_sub(a, b) == IF a >= b THEN a - b ELSE 0

Reverse(s) == [i \in 1..Len(s) |-> s[Len(s) + 1 - i]]

\* The closure given to retain in remove_duplicates, run over the (reversed)
\* list from index i on with its captured flag `done`.
RECURSIVE retain_not_duplicate(_, _, _, _)
retain_not_duplicate(part_sizes, second_last, done, i) ==
    IF i > Len(part_sizes) THEN <<>>
    ELSE LET done1 == done \/ part_sizes[i] # second_last
             keep == done1 \/ part_sizes[i] # second_last
         IN  (IF keep THEN <<part_sizes[i]>> ELSE <<>>)
                \o retain_not_duplicate(part_sizes, second_last, done1, i + 1)

\* remove_duplicates as a plausible slip would have it: every element equal
\* to the second last is removed, not only the run at the end.
remove_duplicates_everywhere(part_sizes) ==
    LET n == Len(part_sizes)
    IN  IF n < 2 THEN part_sizes
        ELSE IF part_sizes[n] > part_sizes[n - 1] THEN part_sizes
        ELSE Append(SelectSeq(SubSeq(part_sizes, 1, n - 1),
                              LAMBDA x : x # part_sizes[n - 1]),
                    part_sizes[n - 1])

\* remove_duplicates as a plausible slip would have it: the popped last
\* element is pushed back in place of the second last.
remove_duplicates_pushing_last(part_sizes) ==
    LET n == Len(part_sizes)
    IN  IF n < 2 THEN part_sizes
        ELSE IF part_sizes[n] > part_sizes[n - 1] THEN part_sizes
        ELSE Append(Reverse(retain_not_duplicate(
                                Reverse(SubSeq(part_sizes, 1, n - 1)),
                                part_sizes[n - 1], FALSE, 1)),
                    part_sizes[n])

\* remove_duplicates as a plausible slip would have it: the popped last
\* element is pushed back after the second last.
remove_duplicates_keeping_tail(part_sizes) ==
    LET n == Len(part_sizes)
    IN  IF n < 2 THEN part_sizes
        ELSE IF part_sizes[n] > part_sizes[n - 1] THEN part_sizes
        ELSE LET retained == retain_not_duplicate(
                                 Reverse(SubSeq(part_sizes, 1, n - 1)),
                                 part_sizes[n - 1], FALSE, 1)
             IN  Reverse(retained) \o <<part_sizes[n - 1], part_sizes[n]>>

\* AWSETagCtx::remove_duplicates.
remove_duplicates(part_sizes) ==
    LET n == Len(part_sizes)
    IN  IF n < 2 THEN part_sizes
        ELSE LET last == part_sizes[n]
                 second_last == part_sizes[n - 1]
             IN  IF last > second_last THEN part_sizes
                 ELSE LET popped == SubSeq(part_sizes, 1, n - 1)
                          retained == retain_not_duplicate(
                                          Reverse(popped), second_last, FALSE, 1)
                      IN  Append(Reverse(retained), second_last)

\* The for loop of iterate_part_sizes from index i on, with `file_size` bytes
\* left: the list after the loop and the truncation, and the bytes left.
RECURSIVE iterate_forward(_, _, _)
iterate_forward(file_size, part_sizes, i) ==
    IF i > Len(part_sizes)
    THEN [part_sizes |-> part_sizes, file_size |-> file_size]
    ELSE IF file_size <= part_sizes[i]
    THEN [part_sizes |-> Append(SubSeq(part_sizes, 1, i - 1), file_size),
          file_size |-> saturating_sub(file_size, file_size)]
    ELSE iterate_forward(saturating_sub(file_size, part_sizes[i]), part_sizes, i + 1)

\* The while loop of iterate_part_sizes: the last size is pushed until the
\* file size is used up.  (It does not end when last = 0 and file_size > 0.)
RECURSIVE iterate_fill(_, _, _)
iterate_fill(file_size, part_sizes, last) ==
    IF file_size > 0
    THEN iterate_fill(saturating_sub(file_size, last),
                      Append(part_sizes, IF file_size < last THEN file_size ELSE last),
                      last)
    ELSE part_sizes

\* iterate_part_sizes as a plausible slip would have it: the ending part
\* size is not set to the bytes that are left.
iterate_part_sizes_keep_ending(file_size, part_sizes) ==
    LET fwd == iterate_forward(file_size, part_sizes, 1)
    IN  IF Len(fwd.part_sizes) <= Len(part_sizes) /\ fwd.file_size = 0
        THEN SubSeq(part_sizes, 1, Len(fwd.part_sizes))
        ELSE iterate_fill(fwd.file_size, fwd.part_sizes,
                          fwd.part_sizes[Len(fwd.part_sizes)])

\* AWSETagCtx::iterate_part_sizes.
iterate_part_sizes(file_size, part_sizes) ==
    LET fwd == iterate_forward(file_size, part_sizes, 1)
        last == IF Len(fwd.part_sizes) = 0 THEN 0
                ELSE fwd.part_sizes[Len(fwd.part_sizes)]
    IN  iterate_fill(fwd.file_size, fwd.part_sizes, last)

\* Option::unwrap_or.
unwrap_or(opt, default) == IF opt = None THEN default ELSE CHOOSE x \in opt : TRUE

\* The inner checksum context (checksum/standard.rs): the algorithm and the
\* bytes absorbed since it was created or reset.
StandardCtx(algorithm) == [algorithm |-> algorithm, absorbed |-> <<>>]

\* AWSETagCtx::new.
AWSETagCtx(ctx, part_mode, file_size) ==
    [part_mode |-> part_mode,
     part_size_index |-> 0,
     current_part_size |-> 0,
     current_bytes |-> 0,
     total_bytes |-> 0,
     remainder |-> None,
     part_checksums |-> <<>>,
     n_checksums |-> 0,
     ctx |-> ctx,
     file_size |-> file_size]

\* AWSETagCtx::update_part_sizes.
update_part_sizes(self) ==
    IF self.part_mode.kind # "PartSizes" THEN self
    ELSE [self EXCEPT !.part_mode = PartSizes(
            remove_duplicates(
                iterate_part_sizes(unwrap_or(self.file_size, self.total_bytes),
                                   self.part_mode.sizes)))]

\* A panic of the task (an arithmetic overflow, a slice index out of range).
Panic(e) == [tag |-> "Panic", err |-> e]

\* The unit value of Ok(()).
Unit == <<>>

\* StandardCtx::update: the bytes are absorbed.
standard_update(ctx, data) == [ctx EXCEPT !.absorbed = @ \o data]

\* StandardCtx::finalize: the digest of what was absorbed, by an ideal
\* (injective) hash: the digest names its algorithm and its input.
standard_finalize(ctx) == [algorithm |-> ctx.algorithm, of |-> ctx.absorbed]

\* StandardCtx::reset: a fresh context of the same algorithm.
standard_reset(ctx) == StandardCtx(ctx.algorithm)

\* AWSETagCtx::part_number_to_size: u64::div_ceil.
part_number_to_size(part_number, file_size) ==
    (file_size + part_number - 1) \div part_number

\* next_part_size as a plausible slip would have it: without a file size a
\* part number is applied to the bytes counted so far, as format_parts does.
next_part_size_defaults_to_total(self) ==
    IF self.part_mode.kind = "PartSizes"
    THEN LET part_sizes == self.part_mode.sizes
         IN  IF self.part_size_index >= Len(part_sizes)
             THEN [res |-> Err("expected part size"), self |-> self]
             ELSE [res |-> Ok(part_sizes[self.part_size_index + 1]),
                   self |-> IF self.part_size_index # Len(part_sizes) - 1
                            THEN [self EXCEPT !.part_size_index = @ + 1]
                            ELSE self]
    ELSE [res |-> Ok(part_number_to_size(self.part_mode.n,
                                         unwrap_or(self.file_size,
                                                   self.total_bytes))),
          self |-> self]

\* next_part_size as a plausible slip would have it: the index moves on after
\* the last part size as well, so the last size is handed out once.
next_part_size_not_pinned(self) ==
    IF self.part_mode.kind = "PartSizes"
    THEN LET part_sizes == self.part_mode.sizes
         IN  IF self.part_size_index >= Len(part_sizes)
             THEN [res |-> Err("expected part size"), self |-> self]
             ELSE [res |-> Ok(part_sizes[self.part_size_index + 1]),
                   self |-> [self EXCEPT !.part_size_index = @ + 1]]
    ELSE IF self.file_size = None
         THEN [res |-> Err("cannot use part number syntax without file size"),
               self |-> self]
         ELSE [res |-> Ok(part_number_to_size(self.part_mode.n,
                                              unwrap_or(self.file_size, 0))),
               self |-> self]

\* AWSETagCtx::next_part_size: the result and the context it leaves.
next_part_size(self) ==
    IF self.part_mode.kind = "PartSizes"
    THEN LET part_sizes == self.part_mode.sizes
         IN  IF self.part_size_index >= Len(part_sizes)
             THEN [res |-> Err("expected part size"), self |-> self]
             ELSE [res |-> Ok(part_sizes[self.part_size_index + 1]),
                   self |-> IF self.part_size_index # Len(part_sizes) - 1
                            THEN [self EXCEPT !.part_size_index = @ + 1]
                            ELSE self]
    ELSE IF self.file_size = None
         THEN [res |-> Err("cannot use part number syntax without file size"),
               self |-> self]
         ELSE [res |-> Ok(part_number_to_size(self.part_mode.n,
                                              unwrap_or(self.file_size, 0))),
               self |-> self]

\* AWSETagCtx::update_with_remainder.
update_with_remainder(self) ==
    IF self.remainder = None THEN self
    ELSE [self EXCEPT !.ctx = standard_update(@, unwrap_or(self.remainder, <<>>)),
                      !.remainder = None]

\* The branch of update that closes a part: the chunk crosses the end of the
\* current part.  `self` already holds the current part size.
update_split(self, data) ==
    IF self.current_bytes > self.current_part_size
    THEN \* current_part_size - current_bytes overflows: a panic in a debug
         \* build; in a release build the difference wraps and split_at
         \* panics on an index beyond the chunk.
         [res |-> Panic("attempt to subtract with overflow"), self |-> self]
    ELSE LET mid == self.current_part_size - self.current_bytes
             head == SubSeq(data, 1, mid)
             remainder == SubSeq(data, mid + 1, Len(data))
             ctx1 == standard_update(self.ctx, head)
             closed == [self EXCEPT
                          !.part_checksums =
                              Append(@, <<self.current_part_size, standard_finalize(ctx1)>>),
                          !.current_bytes = Len(remainder),
                          !.remainder = Some(remainder),
                          !.ctx = standard_reset(ctx1)]
             next == next_part_size(closed)
         IN  IF IsErr(next.res) THEN [res |-> next.res, self |-> closed]
             ELSE [res |-> Ok(Unit),
                   self |-> [next.self EXCEPT !.current_part_size = next.res.val]]

\* The branch of update that stays inside the current part.
update_within(self, data) ==
    LET fed == update_with_remainder(self)
    IN  [res |-> Ok(Unit),
         self |-> [fed EXCEPT !.current_bytes = @ + Len(data),
                              !.total_bytes = @ + Len(data),
                              !.ctx = standard_update(@, data)]]

\* AWSETagCtx::update: the result and the context it leaves.
update(self, data) ==
    LET first == IF self.current_part_size = 0 THEN next_part_size(self)
                 ELSE [res |-> Ok(self.current_part_size), self |-> self]
    IN  IF IsErr(first.res) THEN [res |-> first.res, self |-> self]
        ELSE LET sized == [first.self EXCEPT !.current_part_size = first.res.val]
             IN  IF sized.current_bytes + Len(data) > sized.current_part_size
                 THEN update_split(sized, data)
                 ELSE update_within(sized, data)

\* AWSETagCtx::finalize: the result and the context it leaves.  The part
\* checksums, one after the other, are what the top-level digest is taken of.
finalize(self) ==
    LET flushed ==
            IF self.remainder # None \/ self.current_bytes # 0
            THEN LET fed == update_with_remainder(self)
                 IN  [fed EXCEPT
                        !.part_checksums =
                            Append(@, <<fed.current_bytes, standard_finalize(fed.ctx)>>),
                        !.total_bytes = @ + fed.current_bytes,
                        !.ctx = standard_reset(fed.ctx)]
            ELSE self
        sized == update_part_sizes(flushed)
        counted == [sized EXCEPT !.n_checksums = Len(sized.part_checksums)]
        concat == [i \in 1..Len(counted.part_checksums) |-> counted.part_checksums[i][2]]
        last == [counted EXCEPT !.ctx = standard_update(@, concat)]
    IN  [res |-> Ok(standard_finalize(last.ctx)), self |-> last]

(***************************************************************************)
(* The normalization harness: as assert_update_part_sizes of the tests     *)
(* does, a context is created with a declared PartSizes list and a file    *)
(* size, and update_part_sizes is applied to it.                           *)
(***************************************************************************)
RECURSIVE SeqsUpTo(_, _)
SeqsUpTo(S, n) ==
    IF n = 0 THEN {<<>>}
    ELSE LET shorter == SeqsUpTo(S, n - 1)
         IN  shorter \cup {Append(s, x) : s \in {t \in shorter : Len(t) = n - 1}, x \in S}

DeclaredPartSizes == SeqsUpTo(1..MaxPartSize, MaxParts) \ {<<>>}

NormIdle ==
    [declared |-> <<1>>, total |-> 0,
     ctx |-> AWSETagCtx(StandardCtx("md5"), PartSizes(<<1>>), Some(0))]

NormInit ==
    /\ pc_nm = "declared"
    /\ \E P \in DeclaredPartSizes, T \in 0..MaxTotal :
        nm = [declared |-> P, total |-> T,
              ctx |-> AWSETagCtx(StandardCtx("md5"), PartSizes(P), Some(T))]

UpdatePartSizes ==
    /\ pc_nm = "declared"
    /\ nm' = [nm EXCEPT !.ctx = update_part_sizes(nm.ctx)]
    /\ pc_nm' = "normalized"
    /\ UNCHANGED notNorm

NormNext ==
    \/ UpdatePartSizes

(***************************************************************************)
(* update_part_sizes taken one loop pass at a time, on the lists the       *)
(* parser produces: parse_size reads "0b" as 0, so "md5-aws-0b" is         *)
(* PartSizes [0], and a size of 0 can stand anywhere in a list.            *)
(***************************************************************************)
ParsedPartSizes == SeqsUpTo(0..MaxPartSize, MaxSchedule) \ {<<>>}

IterateIdle ==
    [pc |-> "idle", declared |-> <<1>>, total |-> 0, file_size |-> 0,
     part_sizes |-> <<1>>, i |-> 1, remove_from |-> None, last |-> 0]

\* The call iterate_part_sizes(file_size.unwrap_or(total_bytes), part_sizes).
IterateInit ==
    \E P \in ParsedPartSizes, T \in 0..MaxTotal :
        it = [IterateIdle EXCEPT !.pc = "for", !.declared = P, !.total = T,
                                 !.file_size = T, !.part_sizes = P]

\* One pass of the for loop over the part sizes.
IterateForPass ==
    /\ it.pc = "for"
    /\ it.i <= Len(it.part_sizes)
    /\ IF it.file_size <= it.part_sizes[it.i]
       THEN it' = [it EXCEPT !.part_sizes[it.i] = it.file_size,
                             !.remove_from = Some(it.i),
                             !.file_size = saturating_sub(it.file_size, it.file_size),
                             !.pc = "truncate"]
       ELSE it' = [it EXCEPT !.file_size = saturating_sub(it.file_size,
                                                          it.part_sizes[it.i]),
                             !.i = it.i + 1]
    /\ UNCHANGED notIterate

\* The for loop ends with the list.
IterateForEnd ==
    /\ it.pc = "for"
    /\ it.i > Len(it.part_sizes)
    /\ it' = [it EXCEPT !.pc = "truncate"]
    /\ UNCHANGED notIterate

\* The elements after the ending part are removed, and `last` is read.
IterateTruncate ==
    /\ it.pc = "truncate"
    /\ LET keep == IF it.remove_from # None
                      /\ unwrap_or(it.remove_from, 0) <= Len(it.part_sizes)
                   THEN SubSeq(it.part_sizes, 1, unwrap_or(it.remove_from, 0))
                   ELSE it.part_sizes
       IN  it' = [it EXCEPT !.part_sizes = keep,
                            !.last = IF Len(keep) = 0 THEN 0 ELSE keep[Len(keep)],
                            !.pc = "while"]
    /\ UNCHANGED notIterate

\* One pass of the while loop: file_size > 0.
IterateFillPass ==
    /\ it.pc = "while"
    /\ it.file_size > 0
    /\ Len(it.part_sizes) < MaxFillLen
    /\ it' = [it EXCEPT !.part_sizes =
                            Append(it.part_sizes,
                                   IF it.file_size < it.last THEN it.file_size
                                   ELSE it.last),
                        !.file_size = saturating_sub(it.file_size, it.last)]
    /\ UNCHANGED notIterate

\* The while loop is left, iterate_part_sizes returns, and update_part_sizes
\* removes the duplicates and returns.
IterateReturn ==
    /\ it.pc = "while"
    /\ it.file_size = 0
    /\ it' = [it EXCEPT !.part_sizes = remove_duplicates(it.part_sizes),
                        !.pc = "returned"]
    /\ UNCHANGED notIterate

IterateNext ==
    \/ IterateForPass
    \/ IterateForEnd
    \/ IterateTruncate
    \/ IterateFillPass
    \/ IterateReturn

\* Taken pass by pass, update_part_sizes returns what the operator
\* update_part_sizes computes, on the lists of positive sizes.
PassesAgreeWithUpdatePartSizes ==
    (it.pc = "returned" /\ \A k \in DOMAIN it.declared : it.declared[k] > 0) =>
        it.part_sizes =
            remove_duplicates(iterate_part_sizes(it.total, it.declared))

\* C38: schedule normalization terminates.  The fill loop is left only when
\* no bytes are left, and a pass changes the bytes left only by taking
\* `last` off them; so the loop is left after finitely many passes exactly
\* when every pass lowers the bytes left.
C38_FillLoopTerminates ==
    [][IterateFillPass => it'.file_size < it.file_size]_vars

(***************************************************************************)
(* The merge harness: draws a, b and c and applies SumsFile::merge, as     *)
(* (a merge b), (b merge c), ((a merge b) merge c), (a merge (b merge c)). *)
(* An error of the inner merge propagates, as `?` does.                    *)
(***************************************************************************)
MergeIdle ==
    [a |-> DefaultSumsFile, b |-> DefaultSumsFile, c |-> DefaultSumsFile,
     ab |-> NotRun, bc |-> NotRun, left |-> NotRun, right |-> NotRun]

MergeInit ==
    /\ pc_mg = "ab"
    /\ \E a \in SumsFiles(ChecksumValues), b \in SumsFiles(ChecksumValues),
          c \in SumsFiles(ChecksumValues) :
            mg = [MergeIdle EXCEPT !.a = a, !.b = b, !.c = c]

MergeAB ==
    /\ pc_mg = "ab"
    /\ mg' = [mg EXCEPT !.ab = merge(mg.a, mg.b)]
    /\ pc_mg' = "bc"
    /\ UNCHANGED notMerge

MergeBC ==
    /\ pc_mg = "bc"
    /\ mg' = [mg EXCEPT !.bc = merge(mg.b, mg.c)]
    /\ pc_mg' = "left"
    /\ UNCHANGED notMerge

MergeLeft ==
    /\ pc_mg = "left"
    /\ mg' = [mg EXCEPT !.left =
                IF IsOk(mg.ab) THEN merge(mg.ab.val, mg.c) ELSE mg.ab]
    /\ pc_mg' = "right"
    /\ UNCHANGED notMerge

MergeRight ==
    /\ pc_mg = "right"
    /\ mg' = [mg EXCEPT !.right =
                IF IsOk(mg.bc) THEN merge(mg.a, mg.bc.val) ELSE mg.bc]
    /\ pc_mg' = "done"
    /\ UNCHANGED notMerge

MergeNext ==
    \/ MergeAB
    \/ MergeBC
    \/ MergeLeft
    \/ MergeRight


(***************************************************************************)
(* Claims about SumsFile::merge, checked under SpecMerge.                  *)
(***************************************************************************)
MergedAB == pc_mg # "ab"

MergeDone == pc_mg = "done"

\* C7: whenever merge(a, b) succeeds, the size of the result is a.size if
\* a.size is present and b.size otherwise (a.size ?? b.size).
C7_MergedSizeIsFirstPresent ==
    (MergedAB /\ IsOk(mg.ab)) =>
        mg.ab.val.size = (IF mg.a.size # None THEN mg.a.size ELSE mg.b.size)

\* C8: merge(a, b) returns the size-mismatch error exactly when a.size
\* differs from b.size and both checksum maps are non-empty; in every
\* other case it succeeds.
C8_MergeErrorExactly ==
    MergedAB =>
        LET mismatch == /\ mg.a.size # mg.b.size
                        /\ DOMAIN mg.a.checksums # {}
                        /\ DOMAIN mg.b.checksums # {}
        IN  /\ mismatch => mg.ab = Err("the size of output files do not match")
            /\ ~mismatch => IsOk(mg.ab)

\* C8 witness: a merge of two non-empty sums files of different sizes was
\* refused.
C8_Witness ==
    /\ MergedAB
    /\ IsErr(mg.ab)
    /\ mg.a.size = Some(1)
    /\ mg.b.size = Some(2)

\* C26 as claimed: merge(a, b) succeeds only if a.size or b.size is absent
\* or a.size equals b.size.
C26_MergeNeedsAbsentOrEqualSizes ==
    (MergedAB /\ IsOk(mg.ab)) =>
        \/ mg.a.size = None
        \/ mg.b.size = None
        \/ mg.a.size = mg.b.size

\* C26 as the code has it: merge(a, b) succeeds only if a.size equals b.size,
\* an absent size being equal to an absent size only, or one of the two
\* holds no checksum.
C26_MergeNeedsEqualSizesOrEmpty ==
    (MergedAB /\ IsOk(mg.ab)) =>
        \/ mg.a.size = mg.b.size
        \/ is_empty(mg.a.checksums)
        \/ is_empty(mg.b.checksums)

\* A sums file of size 1 without checksums was merged with a sums file of
\* size 2 that holds checksums.
C26_Witness ==
    /\ MergedAB
    /\ IsOk(mg.ab)
    /\ mg.a.size = Some(1)
    /\ mg.b.size = Some(2)
    /\ is_empty(mg.a.checksums)
    /\ ~is_empty(mg.b.checksums)
    /\ mg.ab.val.size = Some(1)
    /\ mg.ab.val.checksums = mg.b.checksums

\* C9: whenever merge(a, b) succeeds, the result holds every entry of b,
\* every entry of a whose key is not a key of b, and no other key.
C9_MergeMonotone ==
    (MergedAB /\ IsOk(mg.ab)) =>
        LET m == mg.ab.val.checksums
        IN  /\ \A k \in DOMAIN mg.b.checksums :
                    k \in DOMAIN m /\ m[k] = mg.b.checksums[k]
            /\ \A k \in DOMAIN mg.a.checksums \ DOMAIN mg.b.checksums :
                    k \in DOMAIN m /\ m[k] = mg.a.checksums[k]
            /\ DOMAIN m \subseteq DOMAIN mg.a.checksums \cup DOMAIN mg.b.checksums

\* C9 witness: a successful merge in which b overwrote a value of a and a
\* contributed a key that b does not have.
C9_Witness ==
    /\ MergedAB
    /\ IsOk(mg.ab)
    /\ \E k \in DOMAIN mg.a.checksums \cap DOMAIN mg.b.checksums :
            mg.a.checksums[k] # mg.b.checksums[k]
    /\ DOMAIN mg.a.checksums \ DOMAIN mg.b.checksums # {}

\* C10 as claimed: merge(merge(a, b), c) and merge(a, merge(b, c)) have the
\* same outcome: both fail, or both succeed with the same sums file.
C10_MergeAssociative ==
    MergeDone =>
        /\ IsErr(mg.left) <=> IsErr(mg.right)
        /\ (IsOk(mg.left) /\ IsOk(mg.right)) => mg.left.val = mg.right.val

\* C10 amended: whenever both groupings succeed they give the same checksum
\* map and the same size, and both succeed when a, b and c have equal sizes.
C10_MergeAssociativeWhereDefined ==
    MergeDone =>
        /\ (IsOk(mg.left) /\ IsOk(mg.right)) =>
                /\ mg.left.val.checksums = mg.right.val.checksums
                /\ mg.left.val.size = mg.right.val.size
        /\ (mg.a.size = mg.b.size /\ mg.b.size = mg.c.size) =>
                IsOk(mg.left) /\ IsOk(mg.right)

\* C10 witness: both groupings succeeded on three sums files that all hold
\* the same key with three different values, so the overwrite rule decided.
C10_Witness ==
    /\ MergeDone
    /\ IsOk(mg.left)
    /\ IsOk(mg.right)
    /\ \E k \in Keys :
        /\ k \in DOMAIN mg.a.checksums
        /\ k \in DOMAIN mg.b.checksums
        /\ k \in DOMAIN mg.c.checksums
        /\ mg.a.checksums[k] # mg.b.checksums[k]
        /\ mg.b.checksums[k] # mg.c.checksums[k]
        /\ mg.a.checksums[k] # mg.c.checksums[k]

(***************************************************************************)
(* Claims about update_part_sizes, checked under SpecNorm.                 *)
(***************************************************************************)
RECURSIVE Sum(_)
Sum(s) == IF Len(s) = 0 THEN 0 ELSE s[1] + Sum(Tail(s))

\* The part lengths obtained by cutting `total` bytes with the schedule
\* `sizes` from its i-th element on, the last element repeating.
RECURSIVE Tile(_, _, _)
Tile(total, sizes, i) ==
    IF total = 0 THEN <<>>
    ELSE LET size == sizes[IF i < Len(sizes) THEN i ELSE Len(sizes)]
         IN  IF total <= size THEN <<total>>
             ELSE <<size>> \o Tile(total - size, sizes, i + 1)

Normalized == pc_nm = "normalized"

\* Whether the duplicate trim of remove_duplicates applies to a list.
TrimApplies(part_sizes) ==
    /\ Len(part_sizes) >= 2
    /\ part_sizes[Len(part_sizes)] <= part_sizes[Len(part_sizes) - 1]

\* C5: the list left by update_part_sizes tiles the object as the declared
\* list does: cutting the total with either (last element repeating) gives
\* the same sequence of part lengths.
C5_NormalizedTilesAsDeclared ==
    Normalized =>
        Tile(nm.total, nm.ctx.part_mode.sizes, 1) = Tile(nm.total, nm.declared, 1)

\* C5 witness: a normalized list of at least two elements that is shorter
\* than the tiling it stands for (a repeated tail was collapsed) and differs
\* from the declared list.
C5_Witness ==
    /\ Normalized
    /\ Len(nm.ctx.part_mode.sizes) >= 2
    /\ Len(nm.ctx.part_mode.sizes) < Len(Tile(nm.total, nm.declared, 1))
    /\ nm.ctx.part_mode.sizes # nm.declared

\* C6 as claimed: the elements of the list left in part_mode by
\* update_part_sizes sum to the file size.
C6_NormalizedSumIsTotal ==
    Normalized => Sum(nm.ctx.part_mode.sizes) = nm.total

\* C6 amended: the list after the forward pass (iterate_part_sizes) sums to
\* the file size; the list left in part_mode sums to at most the file size,
\* and to exactly the file size only when the duplicate trim does not apply.
C6_NormalizedSumAtMostTotal ==
    Normalized =>
        LET forward == iterate_part_sizes(nm.total, nm.declared)
        IN  /\ Sum(forward) = nm.total
            /\ Sum(nm.ctx.part_mode.sizes) <= nm.total
            /\ (Sum(nm.ctx.part_mode.sizes) = nm.total) <=> ~TrimApplies(forward)

\* C6 witness: the trim applied and left a list of at least two elements
\* whose sum is less than the file size.
C6_Witness ==
    /\ Normalized
    /\ Len(nm.ctx.part_mode.sizes) >= 2
    /\ TrimApplies(iterate_part_sizes(nm.total, nm.declared))
    /\ Sum(nm.ctx.part_mode.sizes) < nm.total

\* C37: update_part_sizes applied to the context it left, with the same file
\* size, leaves the part sizes as they are.
C37_NormalizationIdempotent ==
    Normalized => update_part_sizes(nm.ctx).part_mode = nm.ctx.part_mode

\* The declared list was changed by update_part_sizes, by a trim that left
\* two or more part sizes, and a second update_part_sizes changes nothing.
C37_Witness ==
    /\ Normalized
    /\ nm.ctx.part_mode.sizes # nm.declared
    /\ TrimApplies(iterate_part_sizes(nm.total, nm.declared))
    /\ Len(nm.ctx.part_mode.sizes) >= 2
    /\ update_part_sizes(nm.ctx).part_mode.sizes = nm.ctx.part_mode.sizes

\* C27 as claimed: when the trim applies to the list after the forward pass,
\* with last element t and element u before it, the list left in part_mode
\* ends with u followed by t.
C27_TrimKeepsShortTail ==
    Normalized =>
        LET forward == iterate_part_sizes(nm.total, nm.declared)
            out == nm.ctx.part_mode.sizes
        IN  TrimApplies(forward) =>
                /\ Len(out) >= 2
                /\ out[Len(out)] = forward[Len(forward)]
                /\ out[Len(out) - 1] = forward[Len(forward) - 1]

\* C27 as the code has it: when the trim applies, the popped last element
\* is not put back.  The list left in part_mode is the list after the
\* forward pass up to the start of the run of u before the popped element,
\* followed by one u: it ends with u, and the element before that u, if
\* there is one, is not u.
C27_TrimDropsShortTail ==
    Normalized =>
        LET forward == iterate_part_sizes(nm.total, nm.declared)
            out == nm.ctx.part_mode.sizes
            u == forward[Len(forward) - 1]
        IN  TrimApplies(forward) =>
                /\ Len(out) < Len(forward)
                /\ out[Len(out)] = u
                /\ Len(out) >= 2 => out[Len(out) - 1] # u
                /\ SubSeq(out, 1, Len(out) - 1) = SubSeq(forward, 1, Len(out) - 1)
                /\ \A i \in Len(out)..(Len(forward) - 1) : forward[i] = u

\* The list after the forward pass ends with a run of two or more u and a
\* shorter last element, after an element that is not u; what is left is
\* that element and one u.
C27_Witness ==
    /\ Normalized
    /\ LET forward == iterate_part_sizes(nm.total, nm.declared)
           out == nm.ctx.part_mode.sizes
       IN  /\ Len(forward) = 4
           /\ forward[4] < forward[3]
           /\ forward[2] = forward[3]
           /\ forward[1] # forward[2]
           /\ out = <<forward[1], forward[2]>>

(***************************************************************************)
(* The digest harness: one byte stream is passed, chunk by chunk, to two   *)
(* contexts created alike (Ctx::generate: update for every chunk, then     *)
(* finalize; an error or a panic of update ends the run).  The second      *)
(* context runs after the first; the chunk lengths are chosen freely.      *)
(***************************************************************************)
\* The streams: for each length the bytes 1, 2, 3, ... and the all-zero bytes.
Streams ==
    {[i \in 1..n |-> i] : n \in 0..MaxStreamLen}
        \cup {[i \in 1..n |-> 0] : n \in 0..MaxStreamLen}

PartModes ==
    {PartSizes(P) : P \in SeqsUpTo(1..MaxPartSize, MaxSchedule) \ {<<>>}}
        \cup {PartNumber(n) : n \in 1..MaxPartNumber}

EtagIdle ==
    [stream |-> <<>>,
     ctx |-> <<AWSETagCtx(StandardCtx("md5"), PartNumber(1), None),
               AWSETagCtx(StandardCtx("md5"), PartNumber(1), None)>>,
     fed |-> <<0, 0>>,
     chunks |-> <<<<>>, <<>>>>,
     res |-> <<NotRun, NotRun>>,
     turn |-> 0]

\* The file size is unknown (stdin) or the length of the stream.
EtagInit ==
    \E stream \in Streams, part_mode \in PartModes :
        \E file_size \in {None, Some(Len(stream))} :
            et = [EtagIdle EXCEPT
                    !.stream = stream,
                    !.ctx = <<AWSETagCtx(StandardCtx("md5"), part_mode, file_size),
                              AWSETagCtx(StandardCtx("md5"), part_mode, file_size)>>,
                    !.turn = 1]

Running == et.turn \in {1, 2}

\* Ctx::generate, one turn of its loop: the next chunk is passed to update.
Update ==
    /\ Running
    /\ et.fed[et.turn] < Len(et.stream)
    /\ \E len \in 1..MaxChunkLen :
        /\ et.fed[et.turn] + len <= Len(et.stream)
        /\ LET t == et.turn
               data == SubSeq(et.stream, et.fed[t] + 1, et.fed[t] + len)
               out == update(et.ctx[t], data)
           IN  et' = IF IsOk(out.res)
                     THEN [et EXCEPT !.ctx[t] = out.self,
                                     !.fed[t] = @ + len,
                                     !.chunks[t] = Append(@, len)]
                     ELSE [et EXCEPT !.ctx[t] = out.self,
                                     !.chunks[t] = Append(@, len),
                                     !.res[t] = out.res,
                                     !.turn = @ + 1]
    /\ UNCHANGED notEtag

\* Ctx::generate, after the last chunk: finalize.
Finalize ==
    /\ Running
    /\ et.fed[et.turn] = Len(et.stream)
    /\ LET t == et.turn
           out == finalize(et.ctx[t])
       IN  et' = [et EXCEPT !.ctx[t] = out.self, !.res[t] = out.res, !.turn = @ + 1]
    /\ UNCHANGED notEtag

EtagNext ==
    \/ Update
    \/ Finalize

(***************************************************************************)
(* Claims about AWSETagCtx::update and finalize, checked under SpecEtag.   *)
(***************************************************************************)
\* C1: for any two ways of cutting one stream into the chunks passed to
\* update, with the same part schedule and file size, finalize returns the
\* identical top-level digest.
C1_ChunkInvariance ==
    (IsOk(et.res[1]) /\ IsOk(et.res[2])) => et.res[1].val = et.res[2].val

\* The recorded lengths of the first n parts, added up.
RecordedBefore(part_checksums, n) ==
    Sum([j \in 1..n |-> part_checksums[j][1]])

\* C30: after the updates of a stream and finalize, the recorded lengths add
\* up to the length of the stream, and the i-th recorded part digest is the
\* digest of the bytes of the stream that start at the sum of the recorded
\* lengths before i and have the recorded length of part i.
C30_PartsCoverStreamInOrder ==
    \A t \in 1..2 :
        IsOk(et.res[t]) =>
            LET parts == et.ctx[t].part_checksums
            IN  /\ RecordedBefore(parts, Len(parts)) = Len(et.stream)
                /\ \A i \in 1..Len(parts) :
                      parts[i][2].of =
                          SubSeq(et.stream,
                                 RecordedBefore(parts, i - 1) + 1,
                                 RecordedBefore(parts, i - 1) + parts[i][1])

\* C31: after the updates of a stream and finalize, total_bytes is the length
\* of the stream; and a context without a file size is left with the
\* schedule that update_part_sizes gives the declared schedule (still held
\* by the second context, which has not started) for that length.
C31_TotalBytesIsStreamLength ==
    /\ \A t \in 1..2 :
          IsOk(et.res[t]) => et.ctx[t].total_bytes = Len(et.stream)
    /\ (/\ IsOk(et.res[1])
        /\ et.res[2] = NotRun
        /\ et.chunks[2] = <<>>
        /\ et.ctx[1].file_size = None
        /\ et.ctx[1].part_mode.kind = "PartSizes") =>
            et.ctx[1].part_mode =
                update_part_sizes(
                    [et.ctx[2] EXCEPT !.file_size = Some(Len(et.stream))]).part_mode

\* C32: after every update call that returned, current_bytes is at most
\* current_part_size, and no update call panics on its split position.
C32_CurrentBytesWithinPart ==
    \A t \in 1..2 :
        /\ et.res[t].tag # "Panic"
        /\ (et.res[t] = NotRun /\ et.chunks[t] # <<>>) =>
              et.ctx[t].current_bytes <= et.ctx[t].current_part_size

\* A context created with a part number and the length of the stream as its
\* file size, the part number being at most that length, has finalized.
FinalizedByPartNumber(t) ==
    /\ IsOk(et.res[t])
    /\ et.ctx[t].part_mode.kind = "PartNumber"
    /\ et.ctx[t].file_size = Some(Len(et.stream))
    /\ et.ctx[t].part_mode.n <= Len(et.stream)

\* C33: with part number n and a file size of at least n, the updates of
\* the stream and finalize record exactly n part checksums.
C33_PartNumberYieldsThatManyParts ==
    \A t \in 1..2 :
        FinalizedByPartNumber(t) =>
            Len(et.ctx[t].part_checksums) = et.ctx[t].part_mode.n

\* The schedule a finalized context stands for: the part sizes finalize left
\* in part_mode, or the one part size of a part number.
NormalizedSchedule(self) ==
    IF self.part_mode.kind = "PartSizes" THEN self.part_mode.sizes
    ELSE <<part_number_to_size(self.part_mode.n,
                               unwrap_or(self.file_size, self.total_bytes))>>

\* The number of parts a schedule cuts `total` bytes into, the last element
\* repeating; -1 when the schedule cannot cut them (it is empty or holds a
\* part of no bytes).
TilingParts(total, sizes) ==
    IF total = 0 THEN 0
    ELSE IF sizes = <<>> \/ \E i \in DOMAIN sizes : sizes[i] = 0 THEN -1
    ELSE Len(Tile(total, sizes, 1))

\* C19: after the updates of a stream and finalize, the number of recorded
\* part checksums is the number of parts the normalized schedule, last
\* element repeating, cuts the length of the stream into.
C19_PartCountMatchesSchedule ==
    \A t \in 1..2 :
        IsOk(et.res[t]) =>
            Len(et.ctx[t].part_checksums) =
                TilingParts(Len(et.stream), NormalizedSchedule(et.ctx[t]))

\* The step is a call of update on context t.
UpdateCalled(t) ==
    /\ et.turn = t
    /\ Len(et'.chunks[t]) = Len(et.chunks[t]) + 1

\* Context t works by part number.
ByPartNumber(t) == et.ctx[t].part_mode.kind = "PartNumber"

\* C20: a context with a part number and no file size fails every update
\* with the parse error of next_part_size and is left as it was, in every
\* field; a context with a part number n and a file size has
\* ceil(file_size / n) as the target of every part: it is the current part
\* size once update has been called, and the size of every part update has
\* closed.
C20_PartNumberNeedsFileSize ==
    /\ [][\A t \in 1..2 :
            (UpdateCalled(t) /\ ByPartNumber(t) /\ et.ctx[t].file_size = None) =>
                /\ et'.res[t] =
                       Err("cannot use part number syntax without file size")
                /\ et'.ctx[t] = et.ctx[t]]_vars
    /\ [](\A t \in 1..2 :
            (ByPartNumber(t) /\ et.ctx[t].file_size # None) =>
                LET self == et.ctx[t]
                    target == (unwrap_or(self.file_size, 0) + self.part_mode.n - 1)
                                  \div self.part_mode.n
                IN  /\ self.current_part_size \in {0, target}
                    /\ et.chunks[t] # <<>> => self.current_part_size = target
                    /\ \A i \in 1..Len(self.part_checksums) :
                          (i < Len(self.part_checksums) \/ et.res[t] = NotRun) =>
                              self.part_checksums[i][1] = target)

\* Both contexts, with a part number and no file size, were passed the first
\* chunk of a stream, failed, and are as they were created.
C20_Witness ==
    /\ et.turn = 3
    /\ Len(et.stream) >= 2
    /\ \A t \in 1..2 :
          /\ ByPartNumber(t)
          /\ et.ctx[t].file_size = None
          /\ Len(et.chunks[t]) = 1
          /\ IsErr(et.res[t])
          /\ et.ctx[t] = AWSETagCtx(StandardCtx("md5"), et.ctx[t].part_mode, None)

\* Context t works by part sizes and is still being fed: no update has
\* failed and finalize has not run.
FedByPartSizes(t) ==
    /\ et.ctx[t].part_mode.kind = "PartSizes"
    /\ et.res[t] = NotRun
    /\ et.chunks[t] # <<>>

\* The i-th part size of a schedule, the last one repeating.
ScheduleAt(sizes, i) == sizes[IF i < Len(sizes) THEN i ELSE Len(sizes)]

\* C21: with part sizes, the target of the i-th part is the i-th declared
\* size while i is inside the declared list and the last declared size for
\* every later part; part_size_index never exceeds len - 1, and no update
\* fails for want of a part size, however many parts the stream has.
C21_LastPartSizeRepeats ==
    \A t \in 1..2 :
        /\ et.res[t] # Err("expected part size")
        /\ FedByPartSizes(t) =>
              LET self == et.ctx[t]
                  sizes == self.part_mode.sizes
                  closed == Len(self.part_checksums)
              IN  /\ self.part_size_index <= Len(sizes) - 1
                  /\ self.current_part_size = ScheduleAt(sizes, closed + 1)
                  /\ \A i \in 1..closed :
                        self.part_checksums[i][1] = ScheduleAt(sizes, i)

\* A context with two different declared part sizes has closed three parts
\* and works on a fourth: the last size has been handed out three times.
C21_Witness ==
    /\ FedByPartSizes(1)
    /\ Len(et.ctx[1].part_mode.sizes) = 2
    /\ et.ctx[1].part_mode.sizes[1] # et.ctx[1].part_mode.sizes[2]
    /\ Len(et.ctx[1].part_checksums) = 3
    /\ et.ctx[1].part_size_index = 1

(***************************************************************************)
(* The check engine (task/check.rs).  The task holds each loaded sums file *)
(* together with its set of bindings (State: the names of the targets it   *)
(* stands for); a binding is compared, hashed and ordered by its name      *)
(* alone.  The names of the model are numbers; an input list may give one  *)
(* name more than once.                                                    *)
(***************************************************************************)
\* A sums file of the check task: the bindings and the serialized fields.
BoundSumsFile(names, sums) == [names |-> names, sums |-> sums]

\* BTreeSet<State>::cmp: lexicographic over the names in ascending order.
cmp_names(a, b) ==
    IF a = b THEN 0
    ELSE LET differ == (a \ b) \cup (b \ a)
             first == CHOOSE m \in differ : \A x \in differ : m <= x
         IN  IF first \in a
             THEN (IF \E x \in b : x > first THEN -1 ELSE 1)
             ELSE (IF \E x \in a : x > first THEN 1 ELSE -1)

\* The ordering of the task's sums files: the bindings first, then the
\* fields of the sums file.
cmp_bound(a, b) ==
    LET by_names == cmp_names(a.names, b.names)
    IN  IF by_names # 0 THEN by_names ELSE cmp_sums_file(a.sums, b.sums)

\* The sort as a plausible slip would have it: the list is left as it is.
sort_left_as_is(files) == files

\* Vec::sort: a stable sort.  The element at index i goes behind the elements
\* that are less than it and the equal elements that come before it.
sorted_index(files, i) ==
    1 + Cardinality({j \in 1..Len(files) :
                        \/ cmp_bound(files[j], files[i]) < 0
                        \/ cmp_bound(files[j], files[i]) = 0 /\ j < i})

sort(files) ==
    [at \in 1..Len(files) |->
        files[CHOOSE i \in 1..Len(files) : sorted_index(files, i) = at]]

\* CheckTask::hash: the hasher is taken to be free of collisions, so the hash
\* of a list is the list; plus counts what wrapping_add has added to it.
hash(value) == [of |-> value, plus |-> 0]

\* u64::wrapping_add on such a hash.  merge_fn adds 1 once, to a fresh hash,
\* so plus never wraps around.
wrapping_add(h, n) == [h EXCEPT !.plus = @ + n]

\* The names as a plausible slip would have them: the receiving file keeps
\* its own names and those of the merged file are dropped with it.
merge_names_keep_receiver(self, other) == self

\* The names of a merged sums file, as the results expected by test_check
\* show them: the names of both files.  The merge_mut of file.rs has no names
\* to merge; the sums file the task works on carries them.
merge_names(self, other) == self \cup other

\* b.merge_mut(a) in the task: the checksums of a are inserted into b, and b
\* stands for the targets of both.
bound_merge_mut(b, a) ==
    BoundSumsFile(merge_names(b.names, a.names), merge_mut(b.sums, a.sums))

\* The comparison as a plausible slip would have it: merge_comparable is given
\* the closure of merge_same.
compare_always_is_same(group_by, a, b) == is_same(a.sums, b.sums)

\* The comparison as a plausible slip would have it: merge_same is given the
\* closure of merge_comparable.
compare_always_comparable(group_by, a, b) == comparable(a.sums, b.sums)

\* The comparison closures of merge_same and merge_comparable.
compare(group_by, a, b) ==
    IF group_by = "Equality" THEN is_same(a.sums, b.sums)
    ELSE comparable(a.sums, b.sums)

\* The clearing as a plausible slip would have it: the map of checksums is
\* emptied, and the keys go with the values.
clear_checksums_empties_map(files) ==
    [i \in DOMAIN files |->
        [files[i] EXCEPT !.sums.checksums = [key \in {} |-> DefaultChecksum]]]

\* The clearing of merge_comparable: every checksum becomes the default.
clear_checksums(files) ==
    [i \in DOMAIN files |->
        [files[i] EXCEPT !.sums.checksums =
            [key \in DOMAIN @ |-> DefaultChecksum]]]

\* The result of run as a plausible slip would have it: the checksums are
\* cleared whatever the grouping.
run_result_always_cleared(group_by, files) == clear_checksums(files)

\* What run returns once merge_fn has converged: merge_comparable clears the
\* checksums, merge_same leaves them.
run_result(group_by, files) ==
    IF group_by = "Comparability" THEN clear_checksums(files) ELSE files

\* The inner loop of merge_fn run to its end: every file is popped from the
\* end of the list and merged into the first remaining file it compares with,
\* or pushed to reprocess, which is the result.
RECURSIVE pop_files(_, _, _)
pop_files(group_by, files, reprocess) ==
    IF files = <<>> THEN reprocess
    ELSE LET a == files[Len(files)]
             rest == SubSeq(files, 1, Len(files) - 1)
             hits == {i \in 1..Len(rest) : compare(group_by, a, rest[i])}
         IN  IF hits # {}
             THEN LET i == CHOOSE i \in hits : \A j \in hits : i <= j
                  IN  pop_files(group_by,
                                [rest EXCEPT ![i] = bound_merge_mut(@, a)],
                                reprocess)
             ELSE pop_files(group_by, rest, Append(reprocess, a))

\* The outer loop of merge_fn: iterate until the hash of the list is the
\* hash of the previous iteration.
RECURSIVE merge_fn_while(_, _, _, _)
merge_fn_while(group_by, files, state, prev_state) ==
    IF prev_state = state THEN files
    ELSE LET sorted == sort(pop_files(group_by, files, <<>>))
         IN  merge_fn_while(group_by, sorted, hash(sorted), state)

\* merge_fn as a plausible slip would have it: the list is not sorted before
\* the loop, only at the end of each iteration.
merge_fn_without_first_sort(group_by, files) ==
    merge_fn_while(group_by, files, hash(files), wrapping_add(hash(files), 1))

\* merge_fn as a function of the list of a task.
merge_fn(group_by, files) ==
    LET sorted == sort(files)
    IN  merge_fn_while(group_by, sorted, hash(sorted),
                       wrapping_add(hash(sorted), 1))

\* A CheckTask.
CheckTask(files, group_by, flag) ==
    [files |-> files, group_by |-> group_by, update |-> flag]

\* CheckTask::run as a function of the task and of the environment, which
\* lets every write succeed (failing = None) or lets write number k fail
\* (failing = Some(k)).  Without update nothing is written; with update the
\* groups are written in the order of the result, and the first failed write
\* is returned in place of the result.
run(self, failing) ==
    LET result == run_result(self.group_by,
                             merge_fn(self.group_by, self.files))
        k == unwrap_or(failing, Len(result) + 1)
    IN  IF self.update /\ k <= Len(result)
        THEN [value |-> Err("write"), written |-> SubSeq(result, 1, k - 1)]
        ELSE [value |-> Ok(result),
              written |-> IF self.update THEN result ELSE <<>>]

\* The orders a list of n input files can be given in.
InputOrders(n) ==
    {p \in [1..n -> 1..n] : \A i, j \in 1..n : p[i] = p[j] => i = j}

\* The input list in the order p.
permute(files, p) == [i \in DOMAIN files |-> files[p[i]]]

(***************************************************************************)
(* The check harness: a task is built from a list of loaded sums files,    *)
(* run steps through merge_fn, and the result is given to a second task    *)
(* with the same group_by.                                                 *)
(***************************************************************************)
\* A task is built from 0..MaxFiles input files.
MaxFiles == 3

GroupBys == {"Equality", "Comparability"}

\* The top-level values a key takes in the inputs: two for the first key, so
\* that two sums files can disagree on it, and one for every other key.
CheckValues(key) ==
    IF key = KeyOrder[1]
    THEN {Checksum("123", None), Checksum("abc", None)}
    ELSE {Checksum("123", None)}

\* The sums files the inputs are drawn from: without size or with one size,
\* and any subset of the keys.
CheckSumsFiles ==
    {SumsFile(s, m) :
        s \in {None, Some(MaxSize)},
        m \in UNION {{c \in [ks -> UNION {CheckValues(k) : k \in ks}] :
                          \A k \in ks : c[k] \in CheckValues(k)} :
                     ks \in SUBSET Keys}}

CheckIdle ==
    [pc |-> "idle", group_by |-> "Equality", update |-> FALSE,
     input |-> <<>>, files |-> <<>>,
     reprocess |-> <<>>, state |-> hash(<<>>), prev_state |-> hash(<<>>),
     iterations |-> 0, task |-> 0, first |-> <<>>,
     next |-> 1, written |-> <<>>, result |-> NotRun, loads |-> <<>>]

\* The input lists of n names: a name may be given more than once.  The
\* first sort of merge_fn puts the files in the order of their names, so the
\* lists are drawn in that order, with the names 1, 2, ... as they come.
NameLists(n) ==
    {names \in [1..n -> 1..n] :
        /\ n > 0 => names[1] = 1
        /\ \A i \in 1..(n - 1) : names[i + 1] \in {names[i], names[i] + 1}}

\* The names of a list of names.
NamesOf(names) == {names[i] : i \in DOMAIN names}

\* CheckTaskBuilder::build for an input without a sums file: the size of the
\* input and no checksums.
missing_sums_file(file_size) == SumsFile(Some(file_size), <<>>)

\* What loading an input gives CheckTaskBuilder::build: the error that the
\* `?` after ObjectSumsBuilder.build(), after file_size() or after
\* sums_file() returns, no sums file, or the sums file.
Loads ==
    {Err("build"), Err("file_size"), Err("sums_file"), Ok(None)}
        \cup {Ok(Some(f)) : f \in CheckSumsFiles}

\* The loads that let build go on.
LoadsOk == {load \in Loads : IsOk(load)}

\* How the load of an input went.
load_kind(load) ==
    IF IsErr(load) THEN load.err
    ELSE IF load.val = None THEN "absent" ELSE "loaded"

\* The files of CheckTaskBuilder::build: every input is bound to its name,
\* with the sums file loaded for that name, or with one without checksums
\* when there is none.
build_files(names, store) ==
    [i \in DOMAIN names |->
        BoundSumsFile({names[i]},
                      unwrap_or(store[names[i]].val,
                                missing_sums_file(MaxSize)))]

\* The task CheckTaskBuilder::build returns, about to run.
built(files, group_by, flag) ==
    [CheckIdle EXCEPT !.pc = "sort", !.group_by = group_by, !.update = flag,
                      !.input = files, !.files = files, !.task = 1]

\* with_input_files, with_group_by, update or not, and build: each input is
\* bound to its name, with the sums file stored for it, or with a sums file
\* without checksums when none is stored.
CheckInit ==
    \E group_by \in GroupBys, flag \in BOOLEAN, n \in 0..MaxFiles :
        \E names \in NameLists(n) :
            \E store \in [NamesOf(names) -> LoadsOk] :
                ck = [built(build_files(names, store), group_by, flag)
                         EXCEPT !.loads = [name \in NamesOf(names) |->
                                              load_kind(store[name])]]

\* The builder before build is called.
CheckNew == [CheckIdle EXCEPT !.pc = "new"]

\* CheckTaskBuilder::build as a step: the files are loaded and the task is
\* one of the tasks of CheckInit.
Build ==
    /\ ck.pc = "new"
    /\ \E group_by \in GroupBys, flag \in BOOLEAN, n \in 0..MaxFiles :
          \E names \in NameLists(n) :
              \E store \in [NamesOf(names) -> LoadsOk] :
                  ck' = [built(build_files(names, store), group_by, flag)
                            EXCEPT !.loads = [name \in NamesOf(names) |->
                                                 load_kind(store[name])]]
    /\ UNCHANGED notCheck

\* CheckTaskBuilder::build when the load of an input returns an error: `?`
\* returns it from build and there is no task.
BuildFails ==
    /\ ck.pc = "new"
    /\ \E n \in 1..MaxFiles :
          \E names \in NameLists(n) :
              \E store \in [NamesOf(names) -> Loads] :
                  /\ \E name \in NamesOf(names) : IsErr(store[name])
                  /\ ck' = [ck EXCEPT !.pc = "done",
                                      !.result = Err("build"),
                                      !.loads = [name \in NamesOf(names) |->
                                                    load_kind(store[name])]]
    /\ UNCHANGED notCheck

\* merge_fn, before the loop: sort, hash, and a previous hash that differs.
MergeFnSort ==
    /\ ck.pc = "sort"
    /\ LET sorted == sort(ck.files)
       IN  ck' = [ck EXCEPT !.pc = "while", !.files = sorted,
                            !.state = hash(sorted),
                            !.prev_state = wrapping_add(hash(sorted), 1)]
    /\ UNCHANGED notCheck

\* The loop condition holds: an iteration starts with an empty reprocess list.
MergeFnIterate ==
    /\ ck.pc = "while"
    /\ ck.prev_state # ck.state
    /\ ck' = [ck EXCEPT !.pc = "pop", !.reprocess = <<>>,
                        !.iterations = @ + 1]
    /\ UNCHANGED notCheck

\* One round of the inner loop: pop a from the end; merge it into the first
\* remaining b it compares with, or push it to reprocess.
MergeFnPop ==
    /\ ck.pc = "pop"
    /\ ck.files # <<>>
    /\ LET a == ck.files[Len(ck.files)]
           rest == SubSeq(ck.files, 1, Len(ck.files) - 1)
           hits == {i \in 1..Len(rest) : compare(ck.group_by, a, rest[i])}
       IN  IF hits # {}
           THEN LET i == CHOOSE i \in hits : \A j \in hits : i <= j
                IN  ck' = [ck EXCEPT
                             !.files = [rest EXCEPT ![i] = bound_merge_mut(@, a)]]
           ELSE ck' = [ck EXCEPT !.files = rest,
                                 !.reprocess = Append(@, a)]
    /\ UNCHANGED notCheck

\* The end of an iteration: the reprocess list becomes the list, sorted, and
\* the hashes move on.
MergeFnEndIteration ==
    /\ ck.pc = "pop"
    /\ ck.files = <<>>
    /\ LET sorted == sort(ck.reprocess)
       IN  ck' = [ck EXCEPT !.pc = "while", !.files = sorted,
                            !.reprocess = <<>>,
                            !.prev_state = ck.state,
                            !.state = hash(sorted)]
    /\ UNCHANGED notCheck

\* The loop condition fails: merge_fn returns, and run has its result.
\* Without update run returns it; with update the writes come first.
Run ==
    /\ ck.pc = "while"
    /\ ck.prev_state = ck.state
    /\ LET result == run_result(ck.group_by, ck.files)
       IN  ck' = IF ck.update
                 THEN [ck EXCEPT !.pc = "write", !.files = result, !.next = 1]
                 ELSE [ck EXCEPT !.pc = "done", !.files = result,
                                 !.result = Ok(Unit)]
    /\ UNCHANGED notCheck

\* run with update, one turn of `for file in &result`: the file is written,
\* and a failed write is returned by `?`.
RunWrite ==
    /\ ck.pc = "write"
    /\ ck.next <= Len(ck.files)
    /\ \E ok \in BOOLEAN :
          ck' = IF ok
                THEN [ck EXCEPT !.written = Append(@, ck.files[ck.next]),
                                !.next = @ + 1]
                ELSE [ck EXCEPT !.pc = "done", !.result = Err("write")]
    /\ UNCHANGED notCheck

\* run with update, after the last write: run returns the result.
RunReturn ==
    /\ ck.pc = "write"
    /\ ck.next > Len(ck.files)
    /\ ck' = [ck EXCEPT !.pc = "done", !.result = Ok(Unit)]
    /\ UNCHANGED notCheck

\* A second task is built from the result the first returned, with the same
\* group_by and without update.
RunAgain ==
    /\ ck.pc = "done"
    /\ ck.task = 1
    /\ IsOk(ck.result)
    /\ ck' = [ck EXCEPT !.pc = "sort", !.task = 2, !.first = ck.files,
                        !.iterations = 0, !.update = FALSE, !.next = 1,
                        !.written = <<>>, !.result = NotRun]
    /\ UNCHANGED notCheck

CheckNext ==
    \/ MergeFnSort
    \/ MergeFnIterate
    \/ MergeFnPop
    \/ MergeFnEndIteration
    \/ Run
    \/ RunWrite
    \/ RunReturn
    \/ RunAgain

(***************************************************************************)
(* Claims about the check engine, checked under SpecCheck.                 *)
(***************************************************************************)
\* The first task has returned its result.
FirstRunDone == ck.pc = "done" /\ ck.task = 1 /\ IsOk(ck.result)

\* The names the inputs were given by.
CheckedNames == UNION {ck.input[i].names : i \in DOMAIN ck.input}

\* The name input i was given by.
NameOf(i) == CHOOSE name \in ck.input[i].names : TRUE

\* The sums file the task was built with for a name.
InputNamed(name) ==
    ck.input[CHOOSE i \in DOMAIN ck.input : ck.input[i].names = {name}].sums

\* No name was given twice: input i has the name i.
DistinctNames == \A i \in DOMAIN ck.input : ck.input[i].names = {i}

\* The names are in one output group.
InOneGroup(names) == \E g \in 1..Len(ck.files) : names \subseteq ck.files[g].names

\* C2: in an equality run, inputs a, b, c with is_same(a, b) and
\* is_same(b, c) end in one single output group, whatever the other inputs
\* and whatever other keys the three carry.
C2_TransitiveGrouping ==
    (FirstRunDone /\ ck.group_by = "Equality") =>
        \A i, j, k \in 1..Len(ck.input) :
            (/\ is_same(ck.input[i].sums, ck.input[j].sums)
             /\ is_same(ck.input[j].sums, ck.input[k].sums))
                => InOneGroup({NameOf(i), NameOf(j), NameOf(k)})

\* C3: for either grouping relation, the task run on the list the first task
\* returned, with the same group_by, returns exactly that list.
C3_CheckIdempotent ==
    (ck.pc = "done" /\ ck.task = 2) => ck.files = ck.first

\* A second run has returned on a first result of two groups, one of them
\* merged from two inputs and holding a checksum.
C3_Witness ==
    /\ DistinctNames
    /\ ck.pc = "done"
    /\ ck.task = 2
    /\ Len(ck.first) = 2
    /\ Len(ck.input) = 3
    /\ \E g \in 1..2 : DOMAIN ck.first[g].sums.checksums # {}

\* The loop of merge_fn has ended: merge_fn returns its list.
MergeFnReturns == ck.pc = "while" /\ ck.prev_state = ck.state

\* The grouping relation R of a run, on two sums files.
Related(a, b) ==
    IF ck.group_by = "Equality" THEN is_same(a, b) ELSE comparable(a, b)

\* C13: when merge_fn returns for the relation R (is_same or comparable), no
\* two distinct sums files of its list satisfy R, so no further merge is
\* possible.
C13_OutputMinimal ==
    MergeFnReturns =>
        \A g, h \in 1..Len(ck.files) :
            g # h => ~Related(ck.files[g].sums, ck.files[h].sums)

\* merge_fn returns two groups for three inputs, after a merge.
C13_Witness ==
    /\ DistinctNames
    /\ MergeFnReturns
    /\ ck.task = 1
    /\ Len(ck.input) = 3
    /\ Len(ck.files) = 2

\* C14: the loop of merge_fn terminates for every input list and either
\* relation: an iteration either shrinks the list or leaves it, and its hash,
\* unchanged, which ends the loop; at most n + 1 iterations run for n sums
\* files, and merge_fn returns.
C14_MergeFnTerminates ==
    /\ [](ck.iterations <= Len(ck.input) + 1)
    /\ []((ck.pc = "while" /\ ck.iterations >= 1) =>
            \/ Len(ck.state.of) < Len(ck.prev_state.of)
            \/ ck.state = ck.prev_state)
    /\ (ck.pc = "sort") ~> MergeFnReturns

\* merge_fn returns after two iterations: one that merged, and one that left
\* the list of two groups unchanged.
C14_Witness ==
    /\ DistinctNames
    /\ MergeFnReturns
    /\ ck.task = 1
    /\ ck.iterations = 2
    /\ Len(ck.files) = 2
    /\ Len(ck.input) = 3

\* The keys of the inputs a group was merged from.
MergedKeys(group) ==
    UNION {DOMAIN InputNamed(i).checksums : i \in group.names}

\* The values the inputs of a group hold under a key.
MergedValues(group, key) ==
    {InputNamed(i).checksums[key] :
        i \in {j \in group.names : key \in DOMAIN InputNamed(j).checksums}}

\* C15: when a comparability run returns, every checksum of every output sums
\* file is the default value (empty checksum, no part checksums) and the keys
\* of each output sums file are the union of the keys of the inputs merged
\* into it; when an equality run returns, nothing is cleared: every value is
\* the value one of the merged inputs holds under that key.
C15_ComparabilityClears ==
    FirstRunDone =>
        \A g \in 1..Len(ck.files) :
            LET group == ck.files[g]
            IN  /\ DOMAIN group.sums.checksums = MergedKeys(group)
                /\ \A key \in DOMAIN group.sums.checksums :
                      IF ck.group_by = "Comparability"
                      THEN group.sums.checksums[key] = DefaultChecksum
                      ELSE group.sums.checksums[key] \in MergedValues(group, key)

\* A comparability run has returned a group merged from two inputs with
\* different keys, next to a second group.
C15_Witness ==
    /\ DistinctNames
    /\ FirstRunDone
    /\ ck.group_by = "Comparability"
    /\ Len(ck.files) = 2
    /\ \E g \in 1..2 :
          /\ Cardinality(ck.files[g].names) = 2
          /\ DOMAIN ck.files[g].sums.checksums = Keys
          /\ \E i, j \in ck.files[g].names :
                DOMAIN InputNamed(i).checksums #
                    DOMAIN InputNamed(j).checksums

\* The output groups that input name holds.
GroupsOf(name) == {g \in 1..Len(ck.files) : name \in ck.files[g].names}

\* C16: when run returns, the groups partition the names of the inputs: every
\* input name is in exactly one group, and every name of a group is the name
\* of an input.
C16_GroupsPartitionNames ==
    FirstRunDone =>
        /\ \A name \in CheckedNames : Cardinality(GroupsOf(name)) = 1
        /\ \A g \in 1..Len(ck.files) :
              /\ ck.files[g].names # {}
              /\ ck.files[g].names \subseteq CheckedNames

\* An equality run on three inputs has returned a group of two names and a
\* group of one.
C16_Witness ==
    /\ DistinctNames
    /\ FirstRunDone
    /\ ck.group_by = "Equality"
    /\ Len(ck.input) = 3
    /\ Len(ck.files) = 2
    /\ \E g, h \in 1..2 :
          /\ Cardinality(ck.files[g].names) = 2
          /\ Cardinality(ck.files[h].names) = 1

\* C17: the result of run is the same list of groups, in names, keys, values
\* and order, for every order the input files are given in.
C17_CheckReproducible ==
    FirstRunDone =>
        \A p \in InputOrders(Len(ck.input)) :
            run(CheckTask(permute(ck.input, p), ck.group_by, ck.update),
                None).value = Ok(ck.files)

\* A run on three inputs has returned two groups, and so does the run on the
\* inputs in reverse order.
C17_Witness ==
    /\ DistinctNames
    /\ FirstRunDone
    /\ Len(ck.input) = 3
    /\ Len(ck.files) = 2
    /\ LET reversed == [i \in 1..3 |-> ck.input[4 - i]]
       IN  /\ reversed # ck.input
           /\ run(CheckTask(reversed, ck.group_by, ck.update),
                  None).value = Ok(ck.files)

\* The inputs reached from the inputs in `names` by chains in which each
\* input is_same with the next, on the sums files as they were given.
RECURSIVE SameChain(_)
SameChain(names) ==
    LET next == names \cup
                  {j \in CheckedNames :
                      \E i \in names : is_same(InputNamed(i), InputNamed(j))}
    IN  IF next = names THEN names ELSE SameChain(next)

\* C34: when an equality run returns, two inputs are in one group only if a
\* chain of inputs leads from one to the other in which each input is_same
\* with the next as they were given.
C34_EqualityJoinsChainsOnly ==
    (FirstRunDone /\ ck.group_by = "Equality") =>
        \A i, j \in CheckedNames :
            InOneGroup({i, j}) => j \in SameChain({i})

\* An equality run on three inputs of one size has returned two groups: the
\* first and the second input hold a key in common with different checksums
\* and are in different groups, the third is in the group of the first.
C34_Witness ==
    /\ DistinctNames
    /\ FirstRunDone
    /\ ck.group_by = "Equality"
    /\ Len(ck.input) = 3
    /\ Len(ck.files) = 2
    /\ comparable(ck.input[1].sums, ck.input[2].sums)
    /\ ~InOneGroup({1, 2})
    /\ InOneGroup({1, 3})

\* C35: at every step of merge_fn and in the result of run, under either
\* relation, the size of a file of the task is the size of every input it
\* stands for.
C35_GroupMembersShareSize ==
    \A f \in {ck.files[j] : j \in DOMAIN ck.files}
              \cup {ck.reprocess[j] : j \in DOMAIN ck.reprocess} :
        \A name \in f.names : InputNamed(name).size = f.sums.size

\* An equality run on three inputs has returned two groups: the first two
\* inputs have the same size and are in one group, the third holds the
\* same checksum for the same key as the first but has another size, and is
\* alone.
C35_Witness ==
    /\ DistinctNames
    /\ FirstRunDone
    /\ ck.group_by = "Equality"
    /\ Len(ck.input) = 3
    /\ Len(ck.files) = 2
    /\ InOneGroup({1, 2})
    /\ ~InOneGroup({1, 3})
    /\ ck.input[1].sums.size # ck.input[3].sums.size
    /\ is_same_whatever_the_size(ck.input[1].sums, ck.input[3].sums)

\* C36: when an equality run returns, any two inputs it put in one group
\* are in one group of the comparability run on the same input list.
C36_EqualityRefinesComparability ==
    (FirstRunDone /\ ck.group_by = "Equality") =>
        LET coarse ==
                run(CheckTask(ck.input, "Comparability", FALSE), None).value.val
        IN  \A i, j \in CheckedNames :
                InOneGroup({i, j}) =>
                    \E g \in DOMAIN coarse : {i, j} \subseteq coarse[g].names

\* An equality run on three inputs has returned two groups, one of them of
\* two inputs that do not hold the same keys, and the comparability run on
\* the same inputs returns one group.
C36_Witness ==
    /\ DistinctNames
    /\ FirstRunDone
    /\ ck.group_by = "Equality"
    /\ Len(ck.input) = 3
    /\ Len(ck.files) = 2
    /\ \E i, j \in 1..3 :
          /\ i # j
          /\ InOneGroup({i, j})
          /\ DOMAIN ck.input[i].sums.checksums # DOMAIN ck.input[j].sums.checksums
    /\ Len(run(CheckTask(ck.input, "Comparability", FALSE), None).value.val) = 1

\* The input named i had no sums file when the task was built.
Missing(i) == i \in DOMAIN ck.loads /\ ck.loads[i] = "absent"

\* The sums file of the input named i could not be loaded for the task:
\* there was none, or sums_file() returned an error.
NotLoaded(i) ==
    i \in DOMAIN ck.loads /\ ck.loads[i] \in {"absent", "sums_file"}

\* The inputs that were given by the name i.
GivenAs(i) == {j \in DOMAIN ck.input : ck.input[j].names = {i}}

\* The input named i is in the task as a sums file without checksums; no
\* file that stands for it ever stands for another name or holds a checksum,
\* and the result of run has one group of its own for every time the input
\* was given.
StaysAlone(i) ==
    /\ ck.pc # "new" =>
          \E j \in DOMAIN ck.input :
              ck.input[j] = BoundSumsFile({i}, missing_sums_file(MaxSize))
    /\ \A f \in {ck.files[j] : j \in DOMAIN ck.files}
                 \cup {ck.reprocess[j] : j \in DOMAIN ck.reprocess} :
          i \in f.names => f.names = {i} /\ is_empty(f.sums.checksums)
    /\ ck.pc = "done" =>
          Cardinality({j \in DOMAIN ck.files : i \in ck.files[j].names})
              = Cardinality(GivenAs(i))

\* C25: an input whose sums file cannot be loaded does not make the task
\* fail (build returns an error only when ObjectSumsBuilder.build() or
\* file_size() of some input did); it is built into the task as a sums file without checksums bound
\* to its name, and under both relations it is never merged and ends as a
\* group of its own.
C25_UnloadedSumsFileStaysAlone ==
    \A i \in 1..MaxFiles :
        NotLoaded(i) =>
            /\ ck.result = Err("build") =>
                  \E j \in DOMAIN ck.loads :
                      ck.loads[j] \in {"build", "file_size"}
            /\ StaysAlone(i)

\* The part of the above that holds: an input without a sums file does not
\* make build fail by itself, and stays alone in every task that is built.
MissingSumsFileStaysAlone ==
    \A i \in 1..MaxFiles :
        Missing(i) =>
            /\ ck.result = Err("build") =>
                  \E j \in DOMAIN ck.loads :
                      ck.loads[j] \in {"build", "file_size", "sums_file"}
            /\ ck.result # Err("build") => StaysAlone(i)

\* Three inputs of the same size were grouped by comparability: the first
\* and the third hold a checksum of the same kind and ended in one group,
\* the second had no sums file and ended alone.
MissingSumsFileWitness ==
    /\ DistinctNames
    /\ FirstRunDone
    /\ ck.group_by = "Comparability"
    /\ Len(ck.input) = 3
    /\ Missing(2)
    /\ ck.input[1].sums.size = Some(MaxSize)
    /\ ~is_empty(ck.input[1].sums.checksums)
    /\ Len(ck.files) = 2
    /\ \E j \in DOMAIN ck.files : ck.files[j].names = {1, 3}
    /\ \E j \in DOMAIN ck.files : ck.files[j].names = {2}

(***************************************************************************)
(* The shared fan-out reader (reader/mod.rs, reader/channel.rs) and its    *)
(* consumers (Ctx::generate).  The reader owns the source; as_stream gives *)
(* one subscriber a bounded queue; read_task reads the source chunk by     *)
(* chunk and publishes each chunk to every subscriber at once, waiting     *)
(* while the queue of a subscriber is full; at the end of the source, or   *)
(* after a failed read has been passed on as an error, the queues are      *)
(* closed.                                                                 *)
(***************************************************************************)
\* Sources have 0..MaxSourceLen bytes.
MaxSourceLen == 4

\* The reader reads 1..MaxChunkSize bytes at a time.
MaxChunkSize == 2

\* The channel capacity is drawn from 1..MaxCapacity.
MaxCapacity == 2

\* as_stream is called 0..MaxSubscribers times before read_task starts.
MaxSubscribers == 3

Min(a, b) == IF a < b THEN a ELSE b

\* The source with len bytes: its bytes are 1, 2, ..., so that no two differ
\* only in their position.
Source(len) == [i \in 1..len |-> i]

\* The number of reads that return data on a source of len bytes.
DataReads(len, chunk_size) == (len + chunk_size - 1) \div chunk_size

\* One read of the source at pos: at most chunk_size bytes, none at the end.
read(bytes, pos, chunk_size) ==
    SubSeq(bytes, pos + 1, Min(pos + chunk_size, Len(bytes)))

\* A queue as a plausible slip would have it: a slot that holds the latest
\* item only.
enqueue_latest_only(queue, item) == <<item>>

\* Sending an item on a subscriber's channel: it joins the end of the queue.
enqueue(queue, item) == Append(queue, item)

\* A bounded channel as a plausible slip would have it: unbounded.
has_capacity_unbounded(queue, capacity) == TRUE

\* A bounded channel takes an item while it holds fewer than capacity items.
has_capacity(queue, capacity) == Len(queue) < capacity

ReaderIdle ==
    [pc |-> "idle", bytes |-> <<>>, chunk_size |-> 1, capacity |-> 1,
     fails |-> None, reads |-> 0, pos |-> 0, item |-> NotRun, sent |-> 0,
     queues |-> <<>>, closed |-> FALSE, chunks |-> <<>>,
     received |-> <<>>, status |-> <<>>, result |-> NotRun,
     faulty |-> {}, task |-> NotRun]

\* ChannelReader::new over a source; fails = Some(k) is a source whose read
\* number k + 1 fails.
ReaderInit ==
    \E len \in 0..MaxSourceLen, chunk_size \in 1..MaxChunkSize,
       capacity \in 1..MaxCapacity :
        \E fails \in {None} \cup {Some(k) : k \in 0..DataReads(len, chunk_size)} :
            rd = [ReaderIdle EXCEPT !.pc = "new", !.bytes = Source(len),
                                    !.chunk_size = chunk_size,
                                    !.capacity = capacity, !.fails = fails]

Subscribers == 1..Len(rd.queues)

\* as_stream, before read_task starts: one more subscriber with an empty
\* queue, and the digest task that will consume it.
AsStream ==
    /\ rd.pc = "new"
    /\ Len(rd.queues) < MaxSubscribers
    /\ rd' = [rd EXCEPT !.queues = Append(@, <<>>),
                        !.received = Append(@, <<>>),
                        !.status = Append(@, "running")]
    /\ UNCHANGED notReader

\* The reader once the current item has been published: after
\* an error read_task returns it and the queues are closed, after a chunk it
\* reads on.
sent_to_all(r) ==
    IF IsErr(r.item)
    THEN [r EXCEPT !.pc = "done", !.closed = TRUE, !.result = r.item]
    ELSE [r EXCEPT !.pc = "read"]

\* A failed read as a plausible slip would have it: read_task returns the
\* error and the streams just end.
on_read_error_ends_streams(r) ==
    [r EXCEPT !.pc = "done", !.closed = TRUE, !.result = Err("io")]

\* A failed read: the error becomes the item to send to every subscriber.
on_read_error(r) == [r EXCEPT !.item = Err("io"), !.pc = "send"]

\* read_task: one read of the source.  A failed read becomes an error item,
\* an empty read ends the task and closes the queues, and a chunk becomes the
\* item to publish.
ReadTaskRead ==
    /\ rd.pc \in {"new", "read"}
    /\ LET buf == read(rd.bytes, rd.pos, rd.chunk_size)
       IN  IF rd.fails = Some(rd.reads)
           THEN rd' = on_read_error(rd)
           ELSE IF buf = <<>>
           THEN rd' = [rd EXCEPT !.pc = "done", !.closed = TRUE,
                                 !.result = Ok(rd.pos)]
           ELSE rd' = [rd EXCEPT !.item = Ok(buf), !.pc = "send",
                                 !.reads = @ + 1, !.pos = @ + Len(buf),
                                 !.chunks = Append(@, buf)]
    /\ UNCHANGED notReader

\* A channel as a plausible slip would have it: it outlives its receiver.
receiver_never_dropped(r, i) == FALSE

\* Subscriber i's receiver is dropped with its stream when Ctx::generate
\* returns.
receiver_dropped(r, i) == r.status[i] # "running"

\* read_task: the current item is published to every subscriber at once;
\* the reader waits while the queue of a subscriber holds as many items as
\* the capacity.
ReadTaskSend ==
    /\ rd.pc = "send"
    /\ \A i \in Subscribers : ~receiver_dropped(rd, i)
    /\ \A i \in Subscribers : has_capacity(rd.queues[i], rd.capacity)
    /\ rd' = sent_to_all(
                 [rd EXCEPT !.queues = [i \in Subscribers |->
                                           enqueue(rd.queues[i], rd.item)],
                            !.sent = @ + 1])
    /\ UNCHANGED notReader

\* Ctx::generate: the stream yields a chunk, which is passed to update.
GenerateUpdate ==
    \E i \in Subscribers :
        /\ rd.status[i] = "running"
        /\ rd.queues[i] # <<>>
        /\ IsOk(Head(rd.queues[i]))
        /\ i \notin rd.faulty
        /\ rd' = [rd EXCEPT !.queues[i] = Tail(@),
                            !.received[i] = Append(@, Head(rd.queues[i]).val)]
        /\ UNCHANGED notReader

\* Ctx::generate: the stream yields an error, which generate returns.
GenerateError ==
    \E i \in Subscribers :
        /\ rd.status[i] = "running"
        /\ rd.queues[i] # <<>>
        /\ IsErr(Head(rd.queues[i]))
        /\ rd' = [rd EXCEPT !.queues[i] = Tail(@), !.status[i] = "failed"]
        /\ UNCHANGED notReader

\* Ctx::generate as a plausible slip would have it: generate finalizes as
\* soon as its stream has nothing ready, ended or not.
GenerateFinalizeWhenNothingReady ==
    \E i \in Subscribers :
        /\ rd.status[i] = "running"
        /\ rd.queues[i] = <<>>
        /\ rd' = [rd EXCEPT !.status[i] = "finalized"]
        /\ UNCHANGED notReader

\* Ctx::generate: the stream has ended, and generate finalizes.
GenerateFinalize ==
    \E i \in Subscribers :
        /\ rd.status[i] = "running"
        /\ rd.queues[i] = <<>>
        /\ rd.closed
        /\ rd' = [rd EXCEPT !.status[i] = "finalized"]
        /\ UNCHANGED notReader

ReaderNext ==
    \/ AsStream
    \/ ReadTaskRead
    \/ ReadTaskSend
    \/ GenerateUpdate
    \/ GenerateError
    \/ GenerateFinalize

\* as_stream for a digest task whose update fails on its first chunk (a
\* PartNumber context without a file size).
AsStreamFaulty ==
    /\ rd.pc = "new"
    /\ Len(rd.queues) < MaxSubscribers
    /\ rd.faulty = {}
    /\ rd' = [rd EXCEPT !.queues = Append(@, <<>>),
                        !.received = Append(@, <<>>),
                        !.status = Append(@, "running"),
                        !.faulty = {Len(rd.queues) + 1}]
    /\ UNCHANGED notReader

\* Ctx::generate: the stream yields a chunk and update fails on it; generate
\* returns the error, and its stream is dropped with what was queued in it.
GenerateUpdateFails ==
    \E i \in Subscribers :
        /\ rd.status[i] = "running"
        /\ rd.queues[i] # <<>>
        /\ IsOk(Head(rd.queues[i]))
        /\ i \in rd.faulty
        /\ rd' = [rd EXCEPT !.queues[i] = <<>>, !.status[i] = "errored"]
        /\ UNCHANGED notReader

\* read_task: publishing to a subscriber whose receiver was dropped fails,
\* whether or not the reader was waiting at a full queue; From<SendError<T>>
\* makes it a ConcurrencyError, which read_task returns, and the queues are
\* closed.
ReadTaskSendFails ==
    /\ rd.pc = "send"
    /\ \E i \in Subscribers : receiver_dropped(rd, i)
    /\ rd' = [rd EXCEPT !.pc = "done", !.closed = TRUE,
                        !.result = Err("ConcurrencyError")]
    /\ UNCHANGED notReader

\* The generate task has joined the reader task and every digest task: it
\* ends with an error if one of them did.
RunJoin ==
    /\ rd.pc = "done"
    /\ rd.task = NotRun
    /\ \A i \in Subscribers : rd.status[i] # "running"
    /\ rd' = [rd EXCEPT !.task =
                 IF \/ IsErr(rd.result)
                    \/ \E i \in Subscribers : rd.status[i] # "finalized"
                 THEN Err("generate")
                 ELSE Ok(rd.result.val)]
    /\ UNCHANGED notReader

ReadTask == ReadTaskRead \/ ReadTaskSend \/ ReadTaskSendFails

Generate ==
    GenerateUpdate \/ GenerateUpdateFails \/ GenerateError \/ GenerateFinalize

PipelineNext ==
    \/ AsStream
    \/ AsStreamFaulty
    \/ ReadTask
    \/ Generate
    \/ RunJoin

(***************************************************************************)
(* Claims about the shared reader, checked under SpecReader.               *)
(***************************************************************************)
IsPrefix(s, t) == Len(s) <= Len(t) /\ s = SubSeq(t, 1, Len(s))

RECURSIVE Flatten(_)
Flatten(seqs) ==
    IF seqs = <<>> THEN <<>> ELSE Head(seqs) \o Flatten(Tail(seqs))

\* C4: with N subscribers that subscribed before read_task started, under
\* every interleaving each subscriber receives the chunks the reader read, in
\* order and each exactly once, any two subscribers have received the same
\* chunks as far as both have got, and the chunks of a subscriber whose
\* stream has ended concatenate to the source bytes.
C4_FanOutConsistency ==
    \A i \in Subscribers :
        /\ IsPrefix(rd.received[i], rd.chunks)
        /\ \A j \in Subscribers :
              \/ IsPrefix(rd.received[i], rd.received[j])
              \/ IsPrefix(rd.received[j], rd.received[i])
        /\ rd.status[i] = "finalized" =>
              /\ rd.received[i] = rd.chunks
              /\ Flatten(rd.received[i]) = rd.bytes

\* Two subscribers have consumed their streams to the end, of a source of
\* several chunks and with a capacity smaller than the number of chunks.
C4_Witness ==
    /\ Len(rd.queues) = 2
    /\ \A i \in Subscribers : rd.status[i] = "finalized"
    /\ rd.capacity < Len(rd.chunks)
    /\ Len(rd.bytes) > rd.chunk_size

\* The number of items the reader has published that subscriber i has not
\* taken yet.
Ahead(i) == rd.sent - Len(rd.received[i])

\* C22: in every reachable state the queue of each subscriber holds at most
\* capacity items; while the queue of some subscriber is full no step
\* enqueues an item for any subscriber; and the reader has published at most
\* capacity chunks more than any running consumer has taken.
C22_Backpressure ==
    /\ [](\A i \in Subscribers :
            /\ Len(rd.queues[i]) <= rd.capacity
            /\ rd.status[i] = "running" => Ahead(i) <= rd.capacity)
    /\ [][(\E j \in Subscribers : Len(rd.queues[j]) = rd.capacity) =>
              \A i \in Subscribers :
                  Len(rd'.queues[i]) <= Len(rd.queues[i])]_vars

\* The reader waits with the third chunk in hand: the queue of the second
\* subscriber, which has taken nothing, is full, while the first subscriber
\* has taken a chunk and has room in its queue.
C22_Witness ==
    /\ Len(rd.queues) = 2
    /\ rd.pc = "send"
    /\ rd.capacity = 2
    /\ Len(rd.queues[2]) = rd.capacity
    /\ rd.received[2] = <<>>
    /\ Len(rd.queues[1]) < rd.capacity
    /\ rd.sent = rd.capacity
    /\ Len(rd.chunks) = rd.capacity + 1
    /\ rd.status[1] = "running" /\ rd.status[2] = "running"

\* C23: when a read of the source fails, no digest task finalizes: every
\* subscriber is sent the error after the chunks read before it, a digest task
\* that takes the error has taken exactly those chunks and ends as failed with
\* nothing left in its queue, and once read_task has returned every digest
\* task has failed or still has the error in its queue.
C23_SourceErrorReachesEveryTask ==
    rd.fails # None =>
        \A i \in Subscribers :
            /\ rd.status[i] # "finalized"
            /\ rd.status[i] = "failed" =>
                  /\ rd.queues[i] = <<>>
                  /\ rd.received[i] = rd.chunks
            /\ rd.pc = "done" =>
                  \/ rd.status[i] = "failed"
                  \/ /\ rd.queues[i] # <<>>
                     /\ rd.queues[i][Len(rd.queues[i])] = Err("io")

\* The reader still has an item to publish: the one in its hand, or the
\* outcome of a read that is not the one at the end of the source.
HasMore ==
    \/ rd.pc = "send"
    \/ /\ rd.pc = "read"
       /\ rd.pos < Len(rd.bytes) \/ rd.fails = Some(rd.reads)

Errored(i) == i \in Subscribers /\ rd.status[i] = "errored"

\* read_task is running: it has started and has not returned.
ReaderRunning == rd.pc \in {"read", "send"}

GoodSourceStarted ==
    /\ rd.pc \in {"read", "send", "done"}
    /\ rd.fails = None
    /\ rd.faulty = {}

\* The reader has returned the byte count of the source, and every digest
\* task has taken every chunk, seen its stream end and finalized.
PipelineCompleted ==
    /\ rd.pc = "done"
    /\ rd.result = Ok(Len(rd.bytes))
    /\ \A i \in Subscribers :
          /\ rd.status[i] = "finalized"
          /\ rd.queues[i] = <<>>
          /\ rd.received[i] = rd.chunks
          /\ Flatten(rd.received[i]) = rd.bytes

\* C39: on a source without a failing read, with any number of digest tasks
\* and any capacity, under fair scheduling the reader eventually returns the
\* byte count of the source and every digest task has taken every chunk and
\* finalized; a task finalizes once, after which it takes no step; and no
\* state before completion is without a next step.
C39_GoodSourceCompletes ==
    /\ GoodSourceStarted ~> PipelineCompleted
    /\ [][\A i \in Subscribers :
            rd.status[i] = "finalized" =>
                /\ rd'.status[i] = "finalized"
                /\ rd'.received[i] = rd.received[i]
                /\ rd'.queues[i] = rd.queues[i]]_vars
    /\ [](GoodSourceStarted /\ ~PipelineCompleted => ENABLED PipelineNext)

\* Two digest tasks have consumed a source of several chunks to its end with
\* a capacity of 1, the reader has returned the byte count, and the generate
\* task has joined them without an error.
C39_Witness ==
    /\ GoodSourceStarted
    /\ PipelineCompleted
    /\ Len(rd.queues) = MaxSubscribers
    /\ rd.capacity = 1
    /\ Len(rd.chunks) >= 3
    /\ rd.task = Ok(Len(rd.bytes))

\* The second read of the source failed, and both digest tasks have taken
\* the first chunk and then the error.
C23_Witness ==
    /\ rd.fails = Some(1)
    /\ rd.pc = "done"
    /\ rd.result = Err("io")
    /\ Len(rd.queues) = 2
    /\ \A i \in Subscribers :
          rd.status[i] = "failed" /\ Len(rd.received[i]) = 1

(***************************************************************************)
(* The relation harness: draws two sums files and calls is_same and        *)
(* comparable on them, as the tests is_same and comparable of file.rs do.  *)
(***************************************************************************)
RelateIdle ==
    [pc |-> "idle", a |-> DefaultSumsFile, b |-> DefaultSumsFile,
     same |-> None, comparable |-> None]

RelateInit ==
    \E a \in SumsFiles(ChecksumValues), b \in SumsFiles(ChecksumValues) :
        rl = [RelateIdle EXCEPT !.pc = "drawn", !.a = a, !.b = b]

\* a.is_same(&b)
IsSame ==
    /\ rl.pc = "drawn"
    /\ rl.same = None
    /\ rl' = [rl EXCEPT !.same = Some(is_same(rl.a, rl.b))]
    /\ UNCHANGED notRelate

\* a.comparable(&b)
Comparable ==
    /\ rl.pc = "drawn"
    /\ rl.comparable = None
    /\ rl' = [rl EXCEPT !.comparable = Some(comparable(rl.a, rl.b))]
    /\ UNCHANGED notRelate

RelateNext ==
    \/ IsSame
    \/ Comparable

(***************************************************************************)
(* Claims about is_same and comparable, checked under SpecRelate.          *)
(***************************************************************************)
\* The keys that both sums files of the harness hold.
SharedKeys == DOMAIN rl.a.checksums \cap DOMAIN rl.b.checksums

\* The shared keys on which the two top-level checksum strings are identical.
AgreeingKeys ==
    {key \in SharedKeys :
        rl.a.checksums[key].checksum = rl.b.checksums[key].checksum}

\* C11: is_same(a, b) is true exactly when the sizes are equal (both absent
\* counts as equal) and at least one key present in both carries identical
\* top-level checksum strings; part checksums are not compared and a
\* mismatch on another shared key does not make the result false.
C11_IsSameExactly ==
    rl.same # None =>
        rl.same = Some(rl.a.size = rl.b.size /\ AgreeingKeys # {})

\* is_same has returned true for two sums files that agree on one shared key
\* up to its part checksums, which differ, and disagree on the other.
C11_Witness ==
    /\ rl.same = Some(TRUE)
    /\ \E key \in AgreeingKeys :
          rl.a.checksums[key].part_checksums # rl.b.checksums[key].part_checksums
    /\ SharedKeys \ AgreeingKeys # {}

\* C12: comparable(a, b) is true exactly when the sizes are equal (both
\* absent counts as equal) and the key sets intersect, whatever the values.
C12_ComparableExactly ==
    rl.comparable # None =>
        rl.comparable = Some(rl.a.size = rl.b.size /\ SharedKeys # {})

\* comparable has returned true for two sums files without size that share a
\* key and agree on no shared key.
C12_Witness ==
    /\ rl.comparable = Some(TRUE)
    /\ rl.a.size = None
    /\ SharedKeys # {}
    /\ AgreeingKeys = {}

(***************************************************************************)
(* Spec strings.  A string is the sequence of its pieces between dashes; a *)
(* piece is a word or a size literal, a number followed by a unit.         *)
(***************************************************************************)
\* A spec string has 1..MaxTokens pieces.
MaxTokens == 4

Word(w) == [word |-> w, n |-> 0, unit |-> ""]

Size(n, unit) == [word |-> "", n |-> n, unit |-> unit]

\* The algorithms StandardCtx::from_str accepts, as far as the model goes.
Algorithms == {"md5", "sha1"}

\* The pieces the spec strings are made of.
Tokens ==
    {Word(w) : w \in Algorithms \cup {"aws", "etag"}} \cup
    {Size(0, ""), Size(1, ""), Size(2, "b"), Size(1, "kb")}

SpecStrings == SeqsUpTo(Tokens, MaxTokens) \ {<<>>}

\* str::replace("aws-etag", "md5-aws"), from the left.
RECURSIVE replace_aws_etag(_)
replace_aws_etag(s) ==
    IF Len(s) < 2 THEN s
    ELSE IF s[1] = Word("aws") /\ s[2] = Word("etag")
         THEN <<Word("md5"), Word("aws")>> \o
                  replace_aws_etag(SubSeq(s, 3, Len(s)))
         ELSE <<s[1]>> \o replace_aws_etag(Tail(s))

\* str::parse::<u64>: digits only.
parse_u64(s) ==
    IF Len(s) = 1 /\ s[1].word = "" /\ s[1].unit = ""
    THEN Ok(s[1].n)
    ELSE Err("ParseError")

\* parse_size::parse_size on one piece: a number of bytes, or of thousands of
\* bytes; a word is no size.
parse_size(part) ==
    IF part.word # "" THEN Err("ParseError")
    ELSE IF part.unit = "kb" THEN Ok(part.n * 1000)
    ELSE Ok(part.n)

\* "If no part size has been specified default to 1."
default_part_number(s) ==
    IF s = <<Word("md5"), Word("aws")>> THEN s \o <<Size(1, "")>> ELSE s

\* rsplitn(2, "-aws-"): the place of the last "aws" with a piece on either
\* side, or 0 when the string holds none.
rsplit_at(s) ==
    LET splits == {i \in 2..(Len(s) - 1) : s[i] = Word("aws")}
    IN  IF splits = {} THEN 0
        ELSE CHOOSE i \in splits : \A j \in splits : j <= i

\* strip_prefix("etag-").unwrap_or(part_sizes).
strip_etag(part_sizes) ==
    IF Len(part_sizes) >= 2 /\ part_sizes[1] = Word("etag")
    THEN Tail(part_sizes) ELSE part_sizes

\* The part mode, given what parse::<u64> made of the part sizes and what
\* parse_size made of each piece: a part number first, otherwise part sizes.
part_mode_from(part_number, sizes) ==
    IF part_number.tag = "Ok"
    THEN IF part_number.val = 0 THEN Err("ParseError")
         ELSE Ok(PartNumber(part_number.val))
    ELSE IF \E i \in DOMAIN sizes : sizes[i].tag # "Ok"
         THEN Err("ParseError")
         ELSE Ok(PartSizes([i \in DOMAIN sizes |-> sizes[i].val]))

\* The part mode of the part sizes of a string.
parse_part_mode(part_sizes) ==
    part_mode_from(parse_u64(part_sizes),
                   [i \in DOMAIN part_sizes |-> parse_size(part_sizes[i])])

\* The result of parse_part_size, given the part mode: the algorithm is what
\* comes before the split, and is expected.
with_algorithm(s, at, part_mode) ==
    IF part_mode.tag # "Ok" THEN part_mode
    ELSE IF at = 0 THEN Err("ParseError")
    ELSE Ok([algorithm |-> SubSeq(s, 1, at - 1), part_mode |-> part_mode.val])

\* parse_part_size from the split on.
parse_split(s, at) ==
    with_algorithm(s, at,
                   parse_part_mode(strip_etag(SubSeq(s, at + 1, Len(s)))))

\* parse_part_size once the alias and the default are in place.
parse_defaulted(s) == parse_split(s, rsplit_at(s))

\* AWSETagCtx::parse_part_size: the algorithm and the part mode of a string.
parse_part_size(str) ==
    parse_defaulted(default_part_number(replace_aws_etag(str)))

\* StandardCtx::from_str: the name of an algorithm.
standard_from_str(s) ==
    IF Len(s) = 1 /\ s[1].word \in Algorithms
    THEN Ok(StandardCtx(s[1].word))
    ELSE Err("ParseError")

\* AWSETagCtx::from_str, given the inner context.
aws_etag_with_ctx(ctx, part_mode) ==
    IF ctx.tag # "Ok" THEN ctx
    ELSE Ok(AWSETagCtx(ctx.val, part_mode, None))

\* AWSETagCtx::from_str, given the result of parse_part_size.
aws_etag_from_parts(parts) ==
    IF parts.tag # "Ok" THEN parts
    ELSE aws_etag_with_ctx(standard_from_str(parts.val.algorithm),
                           parts.val.part_mode)

\* AWSETagCtx::from_str.
aws_etag_from_str(s) == aws_etag_from_parts(parse_part_size(s))

Regular(ctx) == [kind |-> "Regular", ctx |-> ctx]

AWSEtag(ctx) == [kind |-> "AWSEtag", ctx |-> ctx]

\* Ctx::from_str, the regular case.
regular_from(ctx) == IF ctx.tag # "Ok" THEN ctx ELSE Ok(Regular(ctx.val))

\* Ctx::from_str, given the result of AWSETagCtx::from_str.
ctx_from(aws_etag, s) ==
    IF aws_etag.tag # "Ok" THEN regular_from(standard_from_str(s))
    ELSE Ok(AWSEtag(aws_etag.val))

\* Ctx::from_str: an AWS ETag context if the string parses as one, else a
\* regular context.
ctx_from_str(s) == ctx_from(aws_etag_from_str(s), s)

\* AWSETagCtx::format_part_size: the number of bytes and "b".
format_part_size(part_size) == Size(part_size, "b")

\* AWSETagCtx::format_parts.
format_parts(self) ==
    IF self.part_mode.kind = "PartNumber"
    THEN IF self.file_size = None /\ self.n_checksums = 0
         THEN Panic("cannot format part number without the file size")
         ELSE LET file_size == IF self.file_size # None
                               THEN CHOOSE x \in self.file_size : TRUE
                               ELSE self.total_bytes
              IN  Ok(<<format_part_size(
                          part_number_to_size(self.part_mode.n, file_size))>>)
    ELSE Ok([i \in DOMAIN self.part_mode.sizes |->
                format_part_size(self.part_mode.sizes[i])])

\* Display for AWSETagCtx, given the formatted parts.
aws_etag_with_parts(self, parts) ==
    IF parts.tag # "Ok" THEN parts
    ELSE Ok(<<Word(self.ctx.algorithm), Word("aws")>> \o parts.val)

\* Display for AWSETagCtx: "{}-aws-{}".
aws_etag_to_string(self) == aws_etag_with_parts(self, format_parts(self))

\* Display for Ctx.
ctx_to_string(self) ==
    IF self.kind = "Regular" THEN Ok(<<Word(self.ctx.algorithm)>>)
    ELSE aws_etag_to_string(self.ctx)

\* PartialEq for AWSETagCtx, given the two strings.
strings_eq(left, right) ==
    IF left.tag # "Ok" THEN left
    ELSE IF right.tag # "Ok" THEN right
    ELSE Ok(left.val = right.val)

\* PartialEq for Ctx: the derived equality, which for two AWS ETag contexts
\* is the equality of their strings.
ctx_eq(a, b) ==
    IF a.kind # b.kind THEN Ok(FALSE)
    ELSE IF a.kind = "Regular" THEN Ok(a.ctx.algorithm = b.ctx.algorithm)
    ELSE strings_eq(aws_etag_to_string(a.ctx), aws_etag_to_string(b.ctx))

(***************************************************************************)
(* The spec-string harness: a string is parsed, the result displayed, the  *)
(* displayed string parsed again and the two results compared.             *)
(***************************************************************************)
ParseIdle ==
    [pc |-> "idle", s |-> <<>>, parsed |-> NotRun, shown |-> NotRun,
     reparsed |-> NotRun, equal |-> NotRun]

ParseInit ==
    \E s \in SpecStrings : ps = [ParseIdle EXCEPT !.pc = "parse", !.s = s]

\* Ctx::from_str on the string.
ParseSpec ==
    /\ ps.pc = "parse"
    /\ ps' = [ps EXCEPT !.parsed = ctx_from_str(ps.s), !.pc = "parsed"]
    /\ UNCHANGED notParse

\* to_string on the parsed context.
DisplaySpec ==
    /\ ps.pc = "parsed"
    /\ ps.parsed.tag = "Ok"
    /\ ps' = [ps EXCEPT !.shown = ctx_to_string(ps.parsed.val),
                        !.pc = "shown"]
    /\ UNCHANGED notParse

\* Ctx::from_str on the displayed string.
ReparseSpec ==
    /\ ps.pc = "shown"
    /\ ps.shown.tag = "Ok"
    /\ ps' = [ps EXCEPT !.reparsed = ctx_from_str(ps.shown.val),
                        !.pc = "reparsed"]
    /\ UNCHANGED notParse

\* The two parsed contexts are compared with ==.
CompareSpec ==
    /\ ps.pc = "reparsed"
    /\ ps.reparsed.tag = "Ok"
    /\ ps' = [ps EXCEPT !.equal = ctx_eq(ps.reparsed.val, ps.parsed.val),
                        !.pc = "done"]
    /\ UNCHANGED notParse

ParseNext ==
    \/ ParseSpec
    \/ DisplaySpec
    \/ ReparseSpec
    \/ CompareSpec

(***************************************************************************)
(* Claims about spec strings, checked under SpecParse.                     *)
(***************************************************************************)
\* The string is legal: it has been parsed into a context.
Legal == ps.parsed.tag = "Ok"

\* C18: for every legal spec string, simple, with part sizes or with a part
\* count, displaying the parsed context succeeds, the displayed string is
\* canonical (it parses, and displays as itself), and the context parsed from
\* it equals the context parsed from the string.
C18_SpecRoundTrip ==
    /\ Legal /\ ps.pc = "shown" => ps.shown.tag = "Ok"
    /\ Legal /\ ps.pc = "reparsed" => ps.reparsed.tag = "Ok"
    /\ ps.pc = "done" =>
          /\ ps.equal = Ok(TRUE)
          /\ ctx_to_string(ps.reparsed.val) = ps.shown

(***************************************************************************)
(* main (main.rs): the generate command and the check command.  The        *)
(* outcome of a generate task, of the build of a check task and of a write *)
(* is the environment's: each may succeed or fail, and `?` returns the     *)
(* failure from main.  So are the pairs of an input and a checksum that    *)
(* SumCtxPairs::from_comparable finds missing.                             *)
(***************************************************************************)
\* The inputs of generate: "-" and the names of two files.
InputNames == {"-", "file", "other"}

\* The test of the generate command for its stdin mode.
stdin_selected(input) == input[1] = "-"

\* The update test of the check command as a plausible slip would have it:
\* the group is written whatever the flag.
written_on_whatever_the_flag(flag, file) == <<file>>

\* What the check command writes for one group: the group, if update is set.
written_on(flag, file) == IF flag THEN <<file>> ELSE <<>>

MainIdle ==
    [pc |-> "idle", command |-> "generate", input |-> <<>>, sums |-> <<>>,
     group_by |-> "Equality", update |-> FALSE, generate_missing |-> FALSE,
     pairs |-> <<>>, files |-> <<>>, next |-> 1,
     stdout |-> <<>>, written |-> <<>>, result |-> NotRun]

\* Commands::parse: generate with one or more inputs, with or without
\* --generate-missing, or check with the names of its inputs and the sums
\* files they will load.
MainInit ==
    \/ \E input \in SeqsUpTo(InputNames, MaxFiles) \ {<<>>}, flag \in BOOLEAN :
          mn = [MainIdle EXCEPT !.pc = "generate", !.input = input,
                                !.generate_missing = flag]
    \/ \E group_by \in GroupBys, flag \in BOOLEAN, n \in 0..MaxFiles :
          \E names \in NameLists(n) :
              \E store \in [NamesOf(names) -> CheckSumsFiles] :
                  mn = [MainIdle EXCEPT
                          !.pc = "check", !.command = "check",
                          !.input = names,
                          !.sums = [i \in DOMAIN names |-> store[names[i]]],
                          !.group_by = group_by, !.update = flag]

\* The generate command when the first input is "-": one generate task over
\* stdin, and its sums file printed as JSON.
MainGenerateStdin ==
    /\ mn.pc = "generate"
    /\ stdin_selected(mn.input)
    /\ \E ok \in BOOLEAN :
          mn' = IF ok
                THEN [mn EXCEPT !.pc = "done",
                                !.stdout = Append(@, [line |-> "json"]),
                                !.result = Ok(Unit)]
                ELSE [mn EXCEPT !.pc = "done", !.result = Err("generate")]
    /\ UNCHANGED notMain

\* The generate command otherwise, with --generate-missing: a comparability
\* check task over the inputs is built and run, and from_comparable gives
\* the pairs of an input and a checksum to generate, if any.  A failure of
\* one of them is returned by `?`.
MainGenerateMissing ==
    /\ mn.pc = "generate"
    /\ ~stdin_selected(mn.input)
    /\ mn.generate_missing
    /\ \/ mn' = [mn EXCEPT !.pc = "done", !.result = Err("check")]
       \/ \E pairs \in SeqsUpTo(NamesOf(mn.input), Len(mn.input)) :
             mn' = [mn EXCEPT !.pc = IF pairs = <<>> THEN "inputs" ELSE "missing",
                              !.pairs = pairs]
    /\ UNCHANGED notMain

\* One turn of `for ctx in ctxs.into_inner()`: generate() runs a task over
\* the input of the pair and writes its sums file.
MainGenerateMissingPair ==
    /\ mn.pc = "missing"
    /\ \E ok \in BOOLEAN :
          mn' = IF ~ok
                THEN [mn EXCEPT !.pc = "done", !.result = Err("generate")]
                ELSE [mn EXCEPT
                        !.pc = IF mn.next = Len(mn.pairs) THEN "inputs"
                               ELSE "missing",
                        !.next = IF mn.next = Len(mn.pairs) THEN 1 ELSE @ + 1,
                        !.written = Append(@, [target |-> mn.pairs[mn.next]])]
    /\ UNCHANGED notMain

\* The generate command, one turn of `for input in input`: generate() runs
\* a task over the file and writes its sums file.
MainGenerateInput ==
    /\ \/ mn.pc = "inputs"
       \/ mn.pc = "generate" /\ ~stdin_selected(mn.input) /\ ~mn.generate_missing
    /\ \E ok \in BOOLEAN :
          mn' = IF ~ok
                THEN [mn EXCEPT !.pc = "done", !.result = Err("generate")]
                ELSE IF mn.next = Len(mn.input)
                THEN [mn EXCEPT !.pc = "done", !.result = Ok(Unit),
                                !.written =
                                    Append(@, [target |-> mn.input[mn.next]])]
                ELSE [mn EXCEPT !.next = @ + 1,
                                !.written =
                                    Append(@, [target |-> mn.input[mn.next]])]
    /\ UNCHANGED notMain

\* The check command: check() builds the task, without update, and runs it.
MainCheck ==
    /\ mn.pc = "check"
    /\ \E ok \in BOOLEAN :
          mn' = IF ~ok
                THEN [mn EXCEPT !.pc = "done", !.result = Err("check")]
                ELSE [mn EXCEPT
                        !.pc = "groups",
                        !.files =
                            run(CheckTask([i \in DOMAIN mn.sums |->
                                              BoundSumsFile({mn.input[i]},
                                                            mn.sums[i])],
                                          mn.group_by, FALSE),
                                None).value.val]
    /\ UNCHANGED notMain

\* The check command, one turn of `for file in files` up to the write: the
\* names of the group are printed; without anything to write the turn ends,
\* otherwise the write is awaited.
MainCheckGroup ==
    /\ mn.pc = "groups"
    /\ mn.next <= Len(mn.files)
    /\ LET file == mn.files[mn.next]
           printed == Append(mn.stdout,
                             [line |-> "names", names |-> file.names])
       IN  mn' = IF written_on(mn.update, file) = <<>>
                 THEN [mn EXCEPT !.stdout = printed, !.next = @ + 1]
                 ELSE [mn EXCEPT !.stdout = printed, !.pc = "write"]
    /\ UNCHANGED notMain

\* The check command, the awaited write of a turn: the group is written and
\* the turn ends, or the write fails and `?` returns the error from main.
MainCheckWrite ==
    /\ mn.pc = "write"
    /\ \E ok \in BOOLEAN :
          mn' = IF ok
                THEN [mn EXCEPT !.pc = "groups", !.next = @ + 1,
                                !.written =
                                    @ \o written_on(mn.update,
                                                    mn.files[mn.next])]
                ELSE [mn EXCEPT !.pc = "done", !.result = Err("write")]
    /\ UNCHANGED notMain

\* The check command after the last group: main returns Ok(()).
MainCheckEnd ==
    /\ mn.pc = "groups"
    /\ mn.next > Len(mn.files)
    /\ mn' = [mn EXCEPT !.pc = "done", !.result = Ok(Unit)]
    /\ UNCHANGED notMain

MainNext ==
    \/ MainGenerateStdin
    \/ MainGenerateMissing
    \/ MainGenerateMissingPair
    \/ MainGenerateInput
    \/ MainCheck
    \/ MainCheckGroup
    \/ MainCheckWrite
    \/ MainCheckEnd

(***************************************************************************)
(* Claims about main, checked under SpecMain.                              *)
(***************************************************************************)
MainDone == mn.pc = "done"

\* C28: a generate command whose first input is "-" ends with an error when
\* there are further inputs; with "-" alone it writes no sums file, and when
\* it ends without error it has printed the JSON of the sums file and
\* nothing else.
C28_StdinTakesOneInput ==
    (MainDone /\ mn.command = "generate" /\ stdin_selected(mn.input)) =>
        IF Len(mn.input) > 1
        THEN IsErr(mn.result)
        ELSE /\ mn.written = <<>>
             /\ IsOk(mn.result) => mn.stdout = <<[line |-> "json"]>>

\* C29: a check command without update writes nothing; with update, what is
\* written is, in order, the groups that run returned, all of them when
\* main ends without error; nothing is written before run has returned, and
\* no two of the groups are related under the relation of the run.
C29_CheckWritesOnUpdateOnly ==
    mn.command = "check" =>
        /\ ~mn.update => mn.written = <<>>
        /\ mn.pc = "check" => mn.written = <<>>
        /\ mn.written = SubSeq(mn.files, 1, Len(mn.written))
        /\ mn.pc \in {"groups", "write"} /\ mn.update =>
              Len(mn.written) = mn.next - 1
        /\ mn.pc = "write" => mn.update /\ Len(mn.stdout) = mn.next
        /\ MainDone /\ IsOk(mn.result) /\ mn.update => mn.written = mn.files
        /\ mn.written # <<>> =>
              \A i, j \in DOMAIN mn.files :
                  i # j => ~compare(mn.group_by, mn.files[i], mn.files[j])

\* A check command with update over three inputs ended without error and
\* wrote two groups, one of them standing for two inputs.
C29_Witness ==
    /\ MainDone
    /\ mn.command = "check"
    /\ mn.update
    /\ IsOk(mn.result)
    /\ Len(mn.sums) = 3
    /\ Len(mn.written) = 2
    /\ \E i \in 1..2 : Cardinality(mn.written[i].names) = 2

(***************************************************************************)
(* The specifications: one per subsystem, the others idle.                 *)
(***************************************************************************)
MergeIdles == mg = MergeIdle /\ pc_mg = "idle"

NormIdles == nm = NormIdle /\ pc_nm = "idle"

EtagIdles == et = EtagIdle

CheckIdles == ck = CheckIdle

ReaderIdles == rd = ReaderIdle

RelateIdles == rl = RelateIdle

ParseIdles == ps = ParseIdle

MainIdles == mn = MainIdle

IterateIdles == it = IterateIdle

InitMerge ==
    MergeInit /\ IterateIdles /\ NormIdles /\ EtagIdles /\ CheckIdles /\ ReaderIdles /\ RelateIdles /\ ParseIdles /\ MainIdles

SpecMerge == InitMerge /\ [][MergeNext]_vars

InitNorm ==
    NormInit /\ IterateIdles /\ MergeIdles /\ EtagIdles /\ CheckIdles /\ ReaderIdles /\ RelateIdles /\ ParseIdles /\ MainIdles

SpecNorm == InitNorm /\ [][NormNext]_vars

InitEtag ==
    EtagInit /\ IterateIdles /\ MergeIdles /\ NormIdles /\ CheckIdles /\ ReaderIdles /\ RelateIdles /\ ParseIdles /\ MainIdles

SpecEtag == InitEtag /\ [][EtagNext]_vars

InitCheck ==
    CheckInit /\ IterateIdles /\ MergeIdles /\ NormIdles /\ EtagIdles /\ ReaderIdles /\ RelateIdles /\ ParseIdles /\ MainIdles

SpecCheck == InitCheck /\ [][CheckNext]_vars

\* The check task from the builder on.  Once built it is one sequential task,
\* which takes its next step whenever it has one.
InitBuild ==
    /\ ck = CheckNew
    /\ IterateIdles /\ MergeIdles /\ NormIdles /\ EtagIdles /\ ReaderIdles /\ RelateIdles /\ ParseIdles /\ MainIdles

BuildNext ==
    \/ Build
    \/ BuildFails
    \/ MergeFnSort
    \/ MergeFnIterate
    \/ MergeFnPop
    \/ MergeFnEndIteration
    \/ Run
    \/ RunWrite
    \/ RunReturn
    \/ RunAgain

FairSpecCheck == InitBuild /\ [][BuildNext]_vars /\ WF_vars(CheckNext)

InitReader ==
    ReaderInit /\ IterateIdles /\ MergeIdles /\ NormIdles /\ EtagIdles /\ CheckIdles /\ RelateIdles /\ ParseIdles /\ MainIdles

SpecReader == InitReader /\ [][ReaderNext]_vars

\* The scheduler runs every task that is ready: the reader task, the digest
\* tasks and the generate task that joins them.
FairSpecReader ==
    /\ InitReader
    /\ [][PipelineNext]_vars
    /\ WF_vars(ReadTask)
    /\ WF_vars(Generate)
    /\ WF_vars(RunJoin)

InitRelate ==
    /\ RelateInit
    /\ IterateIdles /\ MergeIdles /\ NormIdles /\ EtagIdles /\ CheckIdles /\ ReaderIdles /\ ParseIdles /\ MainIdles

SpecRelate == InitRelate /\ [][RelateNext]_vars

InitParse ==
    /\ ParseInit
    /\ IterateIdles /\ MergeIdles /\ NormIdles /\ EtagIdles /\ CheckIdles /\ ReaderIdles /\ RelateIdles /\ MainIdles

SpecParse == InitParse /\ [][ParseNext]_vars

InitIterate ==
    /\ IterateInit
    /\ MergeIdles /\ NormIdles /\ EtagIdles /\ CheckIdles /\ ReaderIdles /\ RelateIdles
    /\ ParseIdles /\ MainIdles

SpecIterate == InitIterate /\ [][IterateNext]_vars

InitMain ==
    /\ MainInit
    /\ IterateIdles /\ MergeIdles /\ NormIdles /\ EtagIdles /\ CheckIdles /\ ReaderIdles /\ RelateIdles
    /\ ParseIdles

SpecMain == InitMain /\ [][MainNext]_vars

====
